---- MODULE Spec2Model ----
(***************************************************************************)
(* A model of the unit conversion engine of units/conversions.py:          *)
(* solve_aliases, components, breakdown, the change-of-base functions, the *)
(* nonlinear converters and convert.                                       *)
(*                                                                         *)
(* Unit strings are modelled as strings and are parsed character by        *)
(* character, the way the regular expression and the slices of the source  *)
(* do.  Floating point numbers are modelled as exact reals of the form     *)
(*      n/d * 2^e2 * 5^e5 * (a product of integer powers of symbols)       *)
(* and their sums, where the symbols (the speed of light cc, pi, the constants imported    *)
(* from the constants module and the magnitude zero points) are kept       *)
(* symbolic: two model numbers are equal exactly when the reals they       *)
(* denote are equal for every value of the symbols.                        *)
(***************************************************************************)
EXTENDS Integers, Sequences, FiniteSets, TLC

VARIABLES tables, threads, scan, op, a_from, a_to, a_x, a_ctx, pc, loc, ret, back

vars ==
    <<tables, threads, scan, op, a_from, a_to, a_x, a_ctx, pc, loc, ret, back>>

(***************************************************************************)
(* Characters and strings                                                  *)
(***************************************************************************)

\* The characters of unit strings, in code point order (what sorted() and
\* the comparison of Python strings use).
Ascii == " *-./0123456789ABCDEFGHIJKLMNOPQRSTUVWXYZ^_abcdefghijklmnopqrstuvwxyz"

Digits == "0123456789"

Ch(str, i) == SubSeq(str, i, i)

\* str[i:] of Python, 1-based: the characters from position i on.
From(str, i) == SubSeq(str, i, Len(str))

RECURSIVE IndexIn(_, _, _)
IndexIn(c, alphabet, i) ==
    IF i > Len(alphabet) THEN 0
    ELSE IF Ch(alphabet, i) = c THEN i
    ELSE IndexIn(c, alphabet, i + 1)

Ord(c) == IndexIn(c, Ascii, 1)

isdigit(c) == Len(c) = 1 /\ IndexIn(c, Digits, 1) > 0

DigitVal(c) == IndexIn(c, Digits, 1) - 1

\* str.startswith(pat) at position i.
StartsAt(str, i, pat) ==
    /\ i + Len(pat) - 1 <= Len(str)
    /\ SubSeq(str, i, i + Len(pat) - 1) = pat

\* The order of Python strings: code point by code point, a proper prefix
\* first.
RECURSIVE StrLess(_, _)
StrLess(a, b) ==
    IF Len(b) = 0 THEN FALSE
    ELSE IF Len(a) = 0 THEN TRUE
    ELSE IF Ch(a, 1) = Ch(b, 1) THEN StrLess(From(a, 2), From(b, 2))
    ELSE Ord(Ch(a, 1)) < Ord(Ch(b, 1))

\* int(str) for a string of digits with an optional leading minus.
RECURSIVE NatOfStr(_, _)
NatOfStr(str, acc) ==
    IF Len(str) = 0 THEN acc
    ELSE NatOfStr(From(str, 2), 10 * acc + DigitVal(Ch(str, 1)))

IntOfStr(str) ==
    IF StartsAt(str, 1, "-") THEN 0 - NatOfStr(From(str, 2), 0)
    ELSE NatOfStr(str, 0)

\* '%d' % k and '%s' % k for an integer k.
RECURSIVE StrOfNat(_)
StrOfNat(k) ==
    IF k < 10 THEN Ch(Digits, k + 1)
    ELSE StrOfNat(k \div 10) \o Ch(Digits, (k % 10) + 1)

StrOfInt(k) == IF k < 0 THEN "-" \o StrOfNat(0 - k) ELSE StrOfNat(k)

\* str.find(pat, i): the first position from i on where pat occurs, 0 if
\* there is none.
RECURSIVE find(_, _, _)
find(str, pat, i) ==
    IF i + Len(pat) - 1 > Len(str) THEN 0
    ELSE IF SubSeq(str, i, i + Len(pat) - 1) = pat THEN i
    ELSE find(str, pat, i + 1)

\* str.replace(pat, rep) for a pattern that is not empty: every
\* non-overlapping occurrence, left to right.
RECURSIVE replace(_, _, _)
replace(str, pat, rep) ==
    LET i == find(str, pat, 1)
    IN  IF i = 0 THEN str
        ELSE SubSeq(str, 1, i - 1) \o rep \o replace(From(str, i + Len(pat)), pat, rep)

\* str.split(sep) for a one-character separator: empty fields are kept.
RECURSIVE SplitOn(_, _, _)
SplitOn(str, sep, cur) ==
    IF Len(str) = 0 THEN <<cur>>
    ELSE IF Ch(str, 1) = sep THEN <<cur>> \o SplitOn(From(str, 2), sep, "")
    ELSE SplitOn(From(str, 2), sep, cur \o Ch(str, 1))

\* str.split(): fields separated by runs of blanks, no empty field.
split(str) == SelectSeq(SplitOn(str, " ", ""), LAMBDA f : Len(f) > 0)

\* sep.join(seq)
RECURSIVE join(_, _)
join(sep, seq) ==
    IF Len(seq) = 0 THEN ""
    ELSE IF Len(seq) = 1 THEN seq[1]
    ELSE seq[1] \o sep \o join(sep, Tail(seq))

\* sorted(seq) for a sequence of strings (insertion sort, same result).
RECURSIVE Insert(_, _)
Insert(str, seq) ==
    IF Len(seq) = 0 THEN <<str>>
    ELSE IF StrLess(seq[1], str) THEN <<seq[1]>> \o Insert(str, Tail(seq))
    ELSE <<str>> \o seq

RECURSIVE sorted(_)
sorted(seq) == IF Len(seq) = 0 THEN <<>> ELSE Insert(seq[1], sorted(Tail(seq)))

Range(seq) == {seq[i] : i \in DOMAIN seq}

(***************************************************************************)
(* Numbers                                                                 *)
(***************************************************************************)

\* Symbols: the speed of light cc and the unit sizes au, pc, ly, Rsun, Msun
\* (all imported from the constants module), pi, and the zero points F0ab
\* and F0st of the AB and ST magnitude systems.
Syms == {"cc", "pi", "F0ab", "F0st", "au", "pc", "ly", "Rsun", "Msun"}

NoSyms == [k \in Syms |-> 0]

Abs(k) == IF k < 0 THEN 0 - k ELSE k

RECURSIVE Gcd(_, _)
Gcd(a, b) == IF b = 0 THEN a ELSE Gcd(b, a % b)

\* b^k for k >= 0
RECURSIVE Power(_, _)
Power(b, k) == IF k = 0 THEN 1 ELSE b * Power(b, k - 1)

Min(a, b) == IF a < b THEN a ELSE b

\* The value v under the name of the parameter of F: a local variable.
With(v, F(_)) == F(v)

\* One term n/d * 2^e2 * 5^e5 * (the symbols to the powers s), in canonical
\* form: d is positive, n and d are prime to each other, to 2 and to 5.
RECURSIVE Term(_, _, _, _, _)
Term(n, d, e2, e5, s) ==
    IF n = 0 THEN [n |-> 0, d |-> 1, e2 |-> 0, e5 |-> 0, s |-> NoSyms]
    ELSE IF d < 0 THEN Term(0 - n, 0 - d, e2, e5, s)
    ELSE IF n % 2 = 0 THEN Term(n \div 2, d, e2 + 1, e5, s)
    ELSE IF n % 5 = 0 THEN Term(n \div 5, d, e2, e5 + 1, s)
    ELSE IF d % 2 = 0 THEN Term(n, d \div 2, e2 - 1, e5, s)
    ELSE IF d % 5 = 0 THEN Term(n, d \div 5, e2, e5 - 1, s)
    ELSE IF Gcd(Abs(n), d) > 1
         THEN Term(n \div Gcd(Abs(n), d), d \div Gcd(Abs(n), d), e2, e5, s)
    ELSE [n |-> n, d |-> d, e2 |-> e2, e5 |-> e5, s |-> s]

TMul(a, b) ==
    LET g1 == Gcd(Abs(a.n), b.d)
        g2 == Gcd(Abs(b.n), a.d)
    IN  Term((a.n \div g1) * (b.n \div g2), (a.d \div g2) * (b.d \div g1),
             a.e2 + b.e2, a.e5 + b.e5, [k \in Syms |-> a.s[k] + b.s[k]])

TInv(a) == Term(a.d, a.n, 0 - a.e2, 0 - a.e5, [k \in Syms |-> 0 - a.s[k]])

\* The sum of two terms with the same symbols.
TAdd(a, b) ==
    LET e2 == Min(a.e2, b.e2)
        e5 == Min(a.e5, b.e5)
        g  == Gcd(a.d, b.d)
    IN  IF a.n = 0 THEN b
        ELSE IF b.n = 0 THEN a
        ELSE Term(a.n * Power(2, a.e2 - e2) * Power(5, a.e5 - e5) * (b.d \div g)
                  + b.n * Power(2, b.e2 - e2) * Power(5, b.e5 - e5) * (a.d \div g),
                  (a.d \div g) * b.d, e2, e5, a.s)

\* A number is a sum of terms with pairwise different symbols, none of them
\* zero: the set of its terms.  Zero is the empty sum.
Num(t) == IF t.n = 0 THEN {} ELSE {t}

\* n/d * 10^e
Q(n, d, e) == Num(Term(n, d, e, e, NoSyms))

Int2Num(k) == Q(k, 1, 0)

Sym(name) == Num(Term(1, 1, 0, 0, [k \in Syms |-> IF k = name THEN 1 ELSE 0]))

cc == Sym("cc")

pi == Sym("pi")

IsZero(a) == a = {}

\* The term of a with the symbols s (a zero term if there is none).
Coef(a, s) ==
    IF \E t \in a : t.s = s THEN CHOOSE t \in a : t.s = s
    ELSE [n |-> 0, d |-> 1, e2 |-> 0, e5 |-> 0, s |-> s]

Add(a, b) ==
    {t \in {TAdd(Coef(a, s), Coef(b, s)) : s \in {u.s : u \in a \cup b}} : t.n # 0}

Neg(a) == {Term(0 - t.n, t.d, t.e2, t.e5, t.s) : t \in a}

Sub(a, b) == Add(a, Neg(b))

RECURSIVE Mul(_, _)
Mul(a, b) ==
    IF a = {} THEN {}
    ELSE LET x == CHOOSE t \in a : TRUE
         IN  Add({TMul(x, y) : y \in b}, Mul(a \ {x}, b))

\* 1 / a for a number of one term.  The reciprocal of a sum of several terms
\* is no number of this form: the model's inputs are chosen so that the
\* source never divides by one, and the evaluation stops with an error if it
\* ever does.
Inv(a) ==
    IF Cardinality(a) = 1 THEN {TInv(t) : t \in a}
    ELSE CHOOSE z \in {} : TRUE

Div(a, b) == Mul(a, Inv(b))

\* a ** k for an integer k (a # 0 when k < 0)
RECURSIVE PowInt(_, _)
PowInt(a, k) ==
    IF k = 0 THEN Int2Num(1)
    ELSE IF k < 0 THEN PowInt(Inv(a), 0 - k)
    ELSE Mul(a, PowInt(a, k - 1))

(***************************************************************************)
(* The tables                                                              *)
(***************************************************************************)

Lin(f, base) == [fac |-> f, cls |-> "", base |-> base]

NonLin(cls, base) == [fac |-> Int2Num(1), cls |-> cls, base |-> base]

\* _factors: unit name -> (SI factor or nonlinear converter class, SI base
\* string).  The literal 0.15915494309189535 of 'rad' is 1/(2 pi).
_factors ==
    ("m" :> Lin(Q(1, 1, 0), "m")) @@
    ("A" :> Lin(Q(1, 1, -10), "m")) @@
    ("AU" :> Lin(Sym("au"), "m")) @@
    ("pc" :> Lin(Sym("pc"), "m")) @@
    ("ly" :> Lin(Sym("ly"), "m")) @@
    ("Rsun" :> Lin(Sym("Rsun"), "m")) @@
    ("ft" :> Lin(Q(3048, 1, -4), "m")) @@
    ("in" :> Lin(Q(254, 1, -4), "m")) @@
    ("mi" :> Lin(Q(1609344, 1, -3), "m")) @@
    ("g" :> Lin(Q(1, 1, -3), "kg")) @@
    ("Msun" :> Lin(Sym("Msun"), "kg")) @@
    ("s" :> Lin(Q(1, 1, 0), "s")) @@
    ("min" :> Lin(Q(60, 1, 0), "s")) @@
    ("h" :> Lin(Q(3600, 1, 0), "s")) @@
    ("d" :> Lin(Q(24 * 3600, 1, 0), "s")) @@
    ("yr" :> Lin(Q(365 * 24 * 3600, 1, 0), "s")) @@
    ("cr" :> Lin(Q(365 * 24 * 3600, 1, 2), "s")) @@
    ("hz" :> Lin(Q(1, 1, 0), "cy s-1")) @@
    ("rad" :> Lin(Div(Q(1, 2, 0), pi), "cy")) @@
    ("cy" :> Lin(Q(1, 1, 0), "cy")) @@
    ("deg" :> Lin(Q(1, 360, 0), "cy")) @@
    ("am" :> Lin(Q(1, 360 * 60, 0), "cy")) @@
    ("as" :> Lin(Q(1, 360 * 3600, 0), "cy")) @@
    ("sr" :> Lin(Q(1, 1, 0), "sr")) @@
    ("N" :> Lin(Q(1, 1, 0), "kg m s-2")) @@
    ("dy" :> Lin(Q(1, 1, -5), "kg m s-2")) @@
    ("K" :> Lin(Q(1, 1, 0), "K")) @@
    ("F" :> NonLin("Fahrenheit", "K")) @@
    ("C" :> NonLin("Celcius", "K")) @@
    ("J" :> Lin(Q(1, 1, 0), "kg m2 s-2")) @@
    ("W" :> Lin(Q(1, 1, 0), "kg m2 s-3")) @@
    ("erg" :> Lin(Q(1, 1, -7), "kg m2 s-2")) @@
    ("eV" :> Lin(Q(160217646, 1, -27), "kg m2 s-2")) @@
    ("cal" :> Lin(Q(4184, 1, -3), "kg m2 s-2")) @@
    ("Pa" :> Lin(Q(1, 1, 0), "kg m-1 s-2")) @@
    ("bar" :> Lin(Q(1, 1, 5), "kg m-1 s-2")) @@
    ("at" :> Lin(Q(980665, 1, -1), "kg m-1 s-2")) @@
    ("atm" :> Lin(Q(101325, 1, 0), "kg m-1 s-2")) @@
    ("torr" :> Lin(Q(133322, 1, -3), "kg m-1 s-2")) @@
    ("psi" :> Lin(Q(6894, 1, 0), "kg m-1 s-2")) @@
    ("Jy" :> Lin(Q(1, 1, -26), "kg s-2 cy-1")) @@
    ("vegamag" :> NonLin("VegaMag", "kg m-1 s-3")) @@
    ("STmag" :> NonLin("STMag", "kg m-1 s-3")) @@
    ("ABmag" :> NonLin("ABMag", "kg s-2 cy-1"))

\* _scalings: prefix -> factor
_scalings ==
    ("n" :> Q(1, 1, -9)) @@ ("mu" :> Q(1, 1, -6)) @@ ("m" :> Q(1, 1, -3)) @@
    ("c" :> Q(1, 1, -2)) @@ ("d" :> Q(1, 1, -1)) @@ ("da" :> Q(1, 1, 1)) @@
    ("h" :> Q(1, 1, 2)) @@ ("k" :> Q(1, 1, 3)) @@ ("M" :> Q(1, 1, 6)) @@
    ("G" :> Q(1, 1, 9))

\* The order in which "for scale in _scalings" visits the prefixes.  The
\* table is a dictionary, whose iteration order the language leaves to the
\* build: the order of the source text, or any other.  Only the relative
\* order of a prefix and a longer prefix that starts with it can change the
\* outcome of the loop, and no name of _factors starts with 'u', so the two
\* orders of 'd' and 'da' stand for all of them.
TextOrder == <<"n", "mu", "m", "c", "d", "da", "h", "k", "M", "G">>

ScanOrders ==
    { TextOrder, <<"n", "mu", "m", "c", "da", "d", "h", "k", "M", "G">> }

\* A faulty variant of _aliases: 'micro' ahead of 'micron', and 'mag'
\* without the blank before it.
_aliases_reordered ==
    << <<"micro", "mu">>, <<"micron", "mum">>, <<"cyc", "cy">>,
       <<"cycles", "cy">>, <<"arcsec", "as">>, <<"mag", "vegamag">> >>

\* _aliases, in order
_aliases ==
    << <<"micron", "mum">>, <<"micro", "mu">>, <<"milli", "m">>,
       <<"kilo", "k">>, <<"mega", "M">>, <<"giga", "G">>, <<"nano", "n">>,
       <<"watt", "W">>, <<"Watt", "W">>, <<"Hz", "hz">>, <<"joule", "J">>,
       <<"Joule", "J">>, <<"jansky", "Jy">>, <<"Jansky", "Jy">>,
       <<"arcsec", "as">>, <<"arcmin", "am">>, <<"cycles", "cy">>,
       <<"cycle", "cy">>, <<"cyc", "cy">>, <<"angstrom", "A">>,
       <<"Angstrom", "A">>, <<" mag", " vegamag">>, <<"/mag", " /vegamag">>,
       <<"inch", "in">>, <<"^", "">>, <<"**", "">> >>

\* The results of a call: a value, or the exception that ended it.
\* UnknownUnit is the ValueError 'Unknown unit ...' of components,
\* MissingContext the ValueError '... not given' of a change-of-base
\* function, UnsupportedConversion the KeyError of the lookup in _switch.
Raise(kind) == [kind |-> kind]

IsOk(r) == r.kind = "ok"

(***************************************************************************)
(* components                                                              *)
(***************************************************************************)

\* Whether -{0,1}\d+ matches at position k.
PowAt(str, k) ==
    \/ (k <= Len(str) /\ isdigit(Ch(str, k)))
    \/ (k + 1 <= Len(str) /\ Ch(str, k) = "-" /\ isdigit(Ch(str, k + 1)))

\* The number of digits from position k on.
RECURSIVE DigitRun(_, _)
DigitRun(str, k) ==
    IF k <= Len(str) /\ isdigit(Ch(str, k)) THEN 1 + DigitRun(str, k + 1) ELSE 0

\* (.+?) after a factor of `lead` digits: the end of the shortest basis that
\* a power follows, 0 if there is none.
RECURSIVE BasisEnd(_, _, _)
BasisEnd(str, lead, j) ==
    IF j >= Len(str) THEN 0
    ELSE IF PowAt(str, j + 1) THEN j
    ELSE BasisEnd(str, lead, j + 1)

\* (\d*) is greedy and gives digits back until the rest matches.
RECURSIVE LeadLen(_, _)
LeadLen(str, lead) ==
    IF BasisEnd(str, lead, lead + 1) > 0 THEN lead
    ELSE IF lead = 0 THEN -1
    ELSE LeadLen(str, lead - 1)

\* re.search(r'(\d*)(.+?)(-{0,1}\d+)', str): the three groups, or no match.
\* A match, if there is one, starts at the first character.
re_search(str) ==
    With(LeadLen(str, DigitRun(str, 1)), LAMBDA lead :
    With(BasisEnd(str, lead, lead + 1), LAMBDA j :
    With(IF Ch(str, j + 1) = "-" THEN 1 ELSE 0, LAMBDA sgn :
        IF lead < 0 THEN [matched |-> FALSE]
        ELSE [matched |-> TRUE,
              g1 |-> SubSeq(str, 1, lead),
              g2 |-> SubSeq(str, lead + 1, j),
              g3 |-> SubSeq(str, j + 1, j + sgn + DigitRun(str, j + 1 + sgn))])))

\* A faulty variant of parse: the leading factor dropped.
parse_no_factor(unit) ==
    With(IF ~isdigit(Ch(unit, Len(unit))) THEN unit \o "1" ELSE unit, LAMBDA u :
    With(re_search(u), LAMBDA m :
        IF m.matched
        THEN [factor |-> Int2Num(1), basis |-> m.g2, power |-> IntOfStr(m.g3)]
        ELSE [factor |-> Int2Num(1), basis |-> u, power |-> 1]))

\* The factor, basis and power a token is parsed into (lines 283-291).
parse(unit) ==
    With(IF ~isdigit(Ch(unit, Len(unit))) THEN unit \o "1" ELSE unit, LAMBDA u :
    With(re_search(u), LAMBDA m :
        IF m.matched
        THEN [factor |-> Int2Num(IF Len(m.g1) > 0 THEN NatOfStr(m.g1, 0) ELSE 1),
              basis |-> m.g2, power |-> IntOfStr(m.g3)]
        ELSE [factor |-> Int2Num(1), basis |-> u, power |-> 1]))

\* The loop over the prefixes, visited in the order `order` from position i:
\* the first prefix that the basis starts with and whose remainder is a name
\* of _factors is taken; without any, the basis itself has to be a name.
RECURSIVE resolve(_, _, _)
resolve(basis, order, i) ==
    LET scale     == IF i > Len(order) THEN "" ELSE order[i]
        base_unit == From(basis, Len(scale) + 1)
    IN  IF StartsAt(basis, 1, scale) /\ base_unit \in DOMAIN _factors
        THEN [found |-> TRUE, scale |-> scale, name |-> base_unit]
        ELSE IF i > Len(order) THEN [found |-> FALSE]
        ELSE resolve(basis, order, i + 1)

\* A factor is a float, a nonlinear converter object (its class, prefix and
\* power) or None.
NLC(cls, prefix, power) == [cls |-> cls, prefix |-> prefix, power |-> power]

Float(v) == [cls |-> "float", val |-> v]

None == [cls |-> "NoneType"]

IsFloat(f) == f.cls = "float"

IsNone(f) == f.cls = "NoneType"

\* isinstance(f, NonLinearConverter)
IsNLC(f) == ~IsFloat(f) /\ ~IsNone(f)

\* A faulty variant of components: the parsed name returned as it is, without
\* the switch to SI units.
components_raw(unit, order) ==
    [kind |-> "ok", factor |-> Float(parse(unit).factor),
     basis |-> parse(unit).basis, power |-> parse(unit).power]

components(unit, order) ==
    With(parse(unit), LAMBDA p :
    With(resolve(p.basis, order, 1), LAMBDA r :
    With(Mul(p.factor, IF r.scale = "" THEN Int2Num(1) ELSE _scalings[r.scale]), LAMBDA factor :
    With(_factors[r.name], LAMBDA entry :
        IF ~r.found THEN Raise("UnknownUnit")
        ELSE [kind |-> "ok",
              factor |-> IF entry.cls # "" THEN NLC(entry.cls, factor, 1)
                         ELSE Float(Mul(factor, entry.fac)),
              basis |-> entry.base,
              power |-> p.power]))))

(***************************************************************************)
(* solve_aliases                                                           *)
(***************************************************************************)

\* for alias in _aliases: unit = unit.replace(alias[0], alias[1])
RECURSIVE resolve_aliases(_, _)
resolve_aliases(unit, i) ==
    IF i > Len(_aliases) THEN unit
    ELSE With(replace(unit, _aliases[i][1], _aliases[i][2]), LAMBDA replaced :
             IF replaced = unit THEN resolve_aliases(unit, i + 1)
             ELSE resolve_aliases(replaced, i + 1))

\* A faulty variant of negate_power: the power kept as it is.
negate_power_kept(after_div) ==
    IF ~isdigit(Ch(after_div, Len(after_div))) THEN after_div \o "1" ELSE after_div

\* What a segment that follows a division sign is rewritten to (lines
\* 240-249); after_div[-1] of an empty segment raises IndexError.
negate_power(after_div) ==
    With(IF ~isdigit(Ch(after_div, Len(after_div))) THEN after_div \o "1"
         ELSE after_div, LAMBDA a :
    With(re_search(a), LAMBDA m :
    With(IF m.matched /\ Len(m.g1) > 0 THEN NatOfStr(m.g1, 0) ELSE 1, LAMBDA factor :
    With(IF m.matched THEN IntOfStr(m.g3) ELSE 1, LAMBDA power :
        (IF factor # 1 THEN StrOfInt(factor) ELSE "")
        \o (IF m.matched THEN m.g2 ELSE a) \o StrOfInt(0 - power)))))

\* One space-delimited field: uni.split('/') with every segment after the
\* first rewritten.
RECURSIVE negate_field(_, _)
negate_field(uni, j) ==
    IF j > Len(uni) THEN uni
    ELSE With([uni EXCEPT ![j] = negate_power(uni[j])], LAMBDA next :
             IF Len(next) > 0 THEN negate_field(next, j + 1) ELSE next)

RECURSIVE ravel(_)
ravel(unit_) == IF Len(unit_) = 0 THEN <<>> ELSE unit_[1] \o ravel(Tail(unit_))

\* A faulty variant of HasSlash: the division signs overlooked.
HasSlash_never(unit) == FALSE

\* '/' in unit
HasSlash(unit) == \E i \in 1..Len(unit) : Ch(unit, i) = "/"

solve_aliases(unit0) ==
    With(resolve_aliases(unit0, 1), LAMBDA unit :
    With(split(unit), LAMBDA fields :
    With([i \in DOMAIN fields |-> SplitOn(fields[i], "/", "")], LAMBDA unit_ :
        IF ~HasSlash(unit) THEN [kind |-> "ok", val |-> unit]
        ELSE IF \E i \in DOMAIN unit_ : \E j \in 2..Len(unit_[i]) : unit_[i][j] = ""
        THEN Raise("IndexError")
        ELSE [kind |-> "ok",
              val |-> join(" ", ravel([i \in DOMAIN unit_ |-> negate_field(unit_[i], 2)]))])))

(***************************************************************************)
(* breakdown                                                               *)
(***************************************************************************)

\* factor ** power: a number, or NonLinearConverter.__pow__.
fpow(factor, power) ==
    IF IsNLC(factor) THEN [kind |-> "ok", val |-> NLC(factor.cls, factor.prefix, factor.power + power)]
    ELSE IF IsZero(factor.val) /\ power < 0 THEN Raise("ZeroDivisionError")
    ELSE [kind |-> "ok", val |-> Float(PowInt(factor.val, power))]

\* total_factor * f: floats multiply; a float times a converter is the
\* converter's __rmul__ (same class, prefix scaled, power back to its
\* default); a converter times a converter is __rmul__ falling through to
\* None; a converter or None on the left of a float has no multiplication.
fmul(total, f) ==
    IF IsNLC(f)
    THEN IF ~IsFloat(total) THEN [kind |-> "ok", val |-> None]
         ELSE [kind |-> "ok", val |-> NLC(f.cls, Mul(f.prefix, total.val), 1)]
    ELSE IF ~IsFloat(total) THEN Raise("TypeError")
    ELSE [kind |-> "ok", val |-> Float(Mul(total.val, f.val))]

\* index of name in total_units, 0 if absent
RECURSIVE index(_, _, _)
index(total_units, name, i) ==
    IF i > Len(total_units) THEN 0
    ELSE IF total_units[i] = name THEN i
    ELSE index(total_units, name, i + 1)

\* A faulty variant of added_power: the power of the unit itself forgotten.
added_power_unit(power_, power) == power_

\* What one base token of a unit's base string adds to a power (line 351
\* and line 354).
added_power(power_, power) == power_ * power

\* The inner loop (lines 347-354) over the tokens of one unit's base string.
RECURSIVE add_bases(_, _, _, _, _)
add_bases(acc, basis, k, power, order) ==
    IF k > Len(basis) THEN acc
    ELSE With(components(basis[k], order), LAMBDA c :
         With(index(acc.total_units, c.basis, 1), LAMBDA ix :
         With(IF ix > 0
              THEN [acc EXCEPT !.total_power[ix] = @ + added_power(c.power, power)]
              ELSE [acc EXCEPT !.total_units = Append(@, c.basis),
                               !.total_power = Append(@, added_power(c.power, power))],
              LAMBDA next :
             IF ~IsOk(c) THEN [acc EXCEPT !.kind = c.kind]
             ELSE IF IsOk(next) THEN add_bases(next, basis, k + 1, power, order)
             ELSE next)))

\* The outer loop (lines 342-354) over the tokens of the unit.
RECURSIVE add_units(_, _, _, _)
add_units(acc, units, k, order) ==
    IF k > Len(units) \/ ~IsOk(acc) THEN acc
    ELSE With(components(units[k], order), LAMBDA c :
         With(fpow(c.factor, c.power), LAMBDA fp :
         With(fmul(acc.total_factor, fp.val), LAMBDA tot :
         With(add_bases([acc EXCEPT !.total_factor = tot.val],
                        split(c.basis), 1, c.power, order), LAMBDA next :
             IF ~IsOk(c) THEN [acc EXCEPT !.kind = c.kind]
             ELSE IF ~IsOk(fp) THEN [acc EXCEPT !.kind = fp.kind]
             ELSE IF ~IsOk(tot) THEN [acc EXCEPT !.kind = tot.kind]
             ELSE IF IsOk(next) THEN add_units(next, units, k + 1, order)
             ELSE next))))

\* A faulty variant of signature: neither filtered nor sorted.
signature_unsorted(total_units, total_power) ==
    [i \in DOMAIN total_units |-> total_units[i] \o StrOfInt(total_power[i])]

\* sorted(['%s%s'%(i,j) for i,j in zip(total_units,total_power) if j!=0])
signature(total_units, total_power) ==
    With(SelectSeq([i \in DOMAIN total_units |-> <<total_units[i], total_power[i]>>],
                   LAMBDA e : e[2] # 0), LAMBDA kept :
        sorted([i \in DOMAIN kept |-> kept[i][1] \o StrOfInt(kept[i][2])]))

breakdown(unit0, order) ==
    With(solve_aliases(unit0), LAMBDA unit :
    With(add_units([kind |-> "ok", total_factor |-> Float(Int2Num(1)),
                    total_units |-> <<>>, total_power |-> <<>>],
                   split(unit.val), 1, order), LAMBDA acc :
        IF ~IsOk(unit) THEN Raise(unit.kind)
        ELSE IF ~IsOk(acc) THEN Raise(acc.kind)
        ELSE [kind |-> "ok",
              factor |-> acc.total_factor,
              sig |-> join(" ", signature(acc.total_units, acc.total_power))]))

(***************************************************************************)
(* Change-of-base functions.  kwargs maps the supplied keys to SI values.  *)
(***************************************************************************)

Ok(v) == [kind |-> "ok", val |-> v]

Has(kwargs, key) == key \in DOMAIN kwargs

\* a / b of floats
fdiv(a, b) == IF IsZero(b) THEN Raise("ZeroDivisionError") ELSE Ok(Div(a, b))

two == Int2Num(2)

\* A faulty variant of distance2velocity: a frequency accepted in place of
\* the wavelength.
distance2velocity_freq(arg, kwargs) ==
    IF Has(kwargs, "wave") \/ Has(kwargs, "freq") THEN Ok(Mul(arg, cc))
    ELSE Raise("MissingContext")

distance2velocity(arg, kwargs) ==
    IF Has(kwargs, "wave")
    THEN IF IsZero(kwargs["wave"]) THEN Raise("ZeroDivisionError")
         ELSE Ok(Mul(Div(Sub(arg, kwargs["wave"]), kwargs["wave"]), cc))
    ELSE Raise("MissingContext")

velocity2distance(arg, kwargs) ==
    IF Has(kwargs, "wave")
    THEN Ok(Add(Mul(Div(kwargs["wave"], cc), arg), kwargs["wave"]))
    ELSE Raise("MissingContext")

fnu2flambda(arg, kwargs) ==
    IF Has(kwargs, "wave")
    THEN IF IsZero(kwargs["wave"]) THEN Raise("ZeroDivisionError")
         ELSE Ok(Mul(Div(cc, PowInt(kwargs["wave"], 2)), arg))
    ELSE IF Has(kwargs, "freq")
    THEN Ok(Mul(Div(PowInt(kwargs["freq"], 2), cc), arg))
    ELSE Raise("MissingContext")

flambda2fnu(arg, kwargs) ==
    IF Has(kwargs, "wave")
    THEN Ok(Mul(Div(PowInt(kwargs["wave"], 2), cc), arg))
    ELSE IF Has(kwargs, "freq")
    THEN IF IsZero(kwargs["freq"]) THEN Raise("ZeroDivisionError")
         ELSE Ok(Mul(Div(cc, PowInt(kwargs["freq"], 2)), arg))
    ELSE Raise("MissingContext")

fnu2nufnu(arg, kwargs) ==
    IF Has(kwargs, "wave")
    THEN IF IsZero(kwargs["wave"]) THEN Raise("ZeroDivisionError")
         ELSE Ok(Mul(Div(cc, kwargs["wave"]), arg))
    ELSE IF Has(kwargs, "freq")
    THEN Ok(Mul(Div(kwargs["freq"], cc), arg))
    ELSE Raise("MissingContext")

nufnu2fnu(arg, kwargs) ==
    IF Has(kwargs, "wave")
    THEN Ok(Mul(Div(kwargs["wave"], cc), arg))
    ELSE IF Has(kwargs, "freq")
    THEN IF IsZero(kwargs["freq"]) THEN Raise("ZeroDivisionError")
         ELSE Ok(Mul(Div(cc, kwargs["freq"]), arg))
    ELSE Raise("MissingContext")

distance2frequency(arg, kwargs) == fdiv(cc, arg)

distance2spatialfreq(arg, kwargs) ==
    IF Has(kwargs, "wave")
    THEN fdiv(Mul(Mul(two, pi), arg), kwargs["wave"])
    ELSE IF Has(kwargs, "freq")
    THEN Ok(Mul(Mul(Mul(Mul(two, pi), arg), cc), kwargs["freq"]))
    ELSE Raise("MissingContext")

spatialfreq2distance(arg, kwargs) ==
    IF Has(kwargs, "wave")
    THEN Ok(Div(Mul(kwargs["wave"], arg), Mul(two, pi)))
    ELSE IF Has(kwargs, "freq")
    THEN IF IsZero(kwargs["freq"]) THEN Raise("ZeroDivisionError")
         ELSE Ok(Div(Mul(Div(cc, kwargs["freq"]), arg), Mul(two, pi)))
    ELSE Raise("MissingContext")

\* A faulty variant of surface: the pixel size looked for first.
surface_pix_first(kwargs) ==
    IF Has(kwargs, "pix")
    THEN Ok(PowInt(Mul(Mul(two, pi), kwargs["pix"]), 2))
    ELSE IF Has(kwargs, "diam")
    THEN Ok(Mul(pi, PowInt(Mul(Mul(two, pi), Div(kwargs["diam"], two)), 2)))
    ELSE IF Has(kwargs, "radius")
    THEN Ok(Mul(pi, PowInt(Mul(Mul(two, pi), kwargs["radius"]), 2)))
    ELSE Raise("MissingContext")

\* The surface of per_sr and times_sr (lines 566-576 and 589-599).
surface(kwargs) ==
    IF Has(kwargs, "diam")
    THEN Ok(Mul(pi, PowInt(Mul(Mul(two, pi), Div(kwargs["diam"], two)), 2)))
    ELSE IF Has(kwargs, "radius")
    THEN Ok(Mul(pi, PowInt(Mul(Mul(two, pi), kwargs["radius"]), 2)))
    ELSE IF Has(kwargs, "pix")
    THEN Ok(PowInt(Mul(Mul(two, pi), kwargs["pix"]), 2))
    ELSE Raise("MissingContext")

per_sr(arg, kwargs) ==
    With(surface(kwargs), LAMBDA surf :
        IF ~IsOk(surf) THEN surf ELSE fdiv(arg, surf.val))

times_sr(arg, kwargs) ==
    With(surface(kwargs), LAMBDA surf :
        IF ~IsOk(surf) THEN surf ELSE Ok(Mul(arg, surf.val)))

\* _switch: key -> function
_switch ==
    ("_to_s-1" :> "distance2velocity") @@
    ("s-1_to_" :> "velocity2distance") @@
    ("m1_to_cy1s-1" :> "distance2frequency") @@
    ("cy1s-1_to_m1" :> "distance2frequency") @@
    ("m1_to_" :> "distance2spatialfreq") @@
    ("_to_m1" :> "spatialfreq2distance") @@
    ("cy-1s-2_to_m-1s-3" :> "fnu2flambda") @@
    ("m-1s-3_to_cy-1s-2" :> "flambda2fnu") @@
    ("cy-1s-2_to_s-3" :> "fnu2nufnu") @@
    ("s-3_to_cy-1s-2" :> "nufnu2fnu") @@
    ("_to_sr-1" :> "per_sr") @@
    ("sr-1_to_" :> "times_sr")

\* _switch[key](arg, **kwargs)
call(fn, arg, kwargs) ==
    CASE fn = "distance2velocity" -> distance2velocity(arg, kwargs)
      [] fn = "velocity2distance" -> velocity2distance(arg, kwargs)
      [] fn = "distance2frequency" -> distance2frequency(arg, kwargs)
      [] fn = "distance2spatialfreq" -> distance2spatialfreq(arg, kwargs)
      [] fn = "spatialfreq2distance" -> spatialfreq2distance(arg, kwargs)
      [] fn = "fnu2flambda" -> fnu2flambda(arg, kwargs)
      [] fn = "flambda2fnu" -> flambda2fnu(arg, kwargs)
      [] fn = "fnu2nufnu" -> fnu2nufnu(arg, kwargs)
      [] fn = "nufnu2fnu" -> nufnu2fnu(arg, kwargs)
      [] fn = "per_sr" -> per_sr(arg, kwargs)
      [] fn = "times_sr" -> times_sr(arg, kwargs)

(***************************************************************************)
(* Nonlinear converters                                                    *)
(***************************************************************************)

\* 10 ** v.  The powers of ten that are numbers of the model are those
\* with an integer exponent; any other is irrational, and the call is marked
\* as one whose value the model does not represent.
pow10(v) ==
    IF v = {} THEN Ok(Int2Num(1))
    ELSE LET t == CHOOSE t \in v : TRUE
         IN  IF Cardinality(v) = 1 /\ t.d = 1 /\ t.e2 >= 0 /\ t.e5 >= 0 /\ t.s = NoSyms
             THEN Ok(Q(1, 1, t.n * Power(2, t.e2) * Power(5, t.e5)))
             ELSE Raise("Irrational")

\* log10(v), likewise: of the positive numbers only the powers of ten have
\* a logarithm that is a number of the model.
log10(v) ==
    IF v = {} THEN Raise("Irrational")
    ELSE LET t == CHOOSE t \in v : TRUE
         IN  IF Cardinality(v) = 1 /\ t.n = 1 /\ t.d = 1 /\ t.e2 = t.e5 /\ t.s = NoSyms
             THEN Ok(Int2Num(t.e2))
             ELSE Raise("Irrational")

\* r * k for a result r
scaled(r, k) == IF ~IsOk(r) THEN r ELSE Ok(Mul(r.val, k))

F0vega == Q(1, 1, -9)

F0ab == Sym("F0ab")

F0st == Sym("F0st")

Fahrenheit(self, a, inv) ==
    IF ~inv THEN Ok(Div(Mul(Add(Mul(a, self.prefix), Q(45967, 1, -2)), Int2Num(5)), Int2Num(9)))
    ELSE fdiv(Sub(Div(Mul(a, Int2Num(9)), Int2Num(5)), Q(45967, 1, -2)), self.prefix)

Celcius(self, a, inv) ==
    IF ~inv THEN Ok(Add(Mul(a, self.prefix), Q(27315, 1, -2)))
    ELSE fdiv(Sub(a, Q(27315, 1, -2)), self.prefix)

VegaMag(self, meas, inv) ==
    IF ~inv THEN scaled(pow10(Div(Neg(meas), Q(25, 1, -1))), F0vega)
    ELSE scaled(log10(Div(meas, F0vega)), Q(-25, 1, -1))

ABMag(self, meas, inv) ==
    IF ~inv THEN scaled(pow10(Div(Neg(meas), Q(25, 1, -1))), F0ab)
    ELSE scaled(log10(Div(meas, F0ab)), Q(-25, 1, -1))

STMag(self, meas, inv) ==
    IF ~inv THEN scaled(pow10(Div(Neg(meas), Q(-25, 1, -1))), F0st)
    ELSE scaled(log10(Div(meas, F0st)), Q(-25, 1, -1))

\* self(a, inv=inv)
apply(self, a, inv) ==
    CASE self.cls = "Fahrenheit" -> Fahrenheit(self, a, inv)
      [] self.cls = "Celcius" -> Celcius(self, a, inv)
      [] self.cls = "VegaMag" -> VegaMag(self, a, inv)
      [] self.cls = "ABMag" -> ABMag(self, a, inv)
      [] self.cls = "STMag" -> STMag(self, a, inv)

(***************************************************************************)
(* convert                                                                 *)
(***************************************************************************)

\* "".join(sorted(list(set(uni_a_) - set(uni_b_))))
only(uni_a_, uni_b_) ==
    join("", sorted(SelectSeq(uni_a_, LAMBDA t : t \notin Range(uni_b_))))

\* str[-4:] == 'sr-1'
ends_sr(str) == Len(str) >= 4 /\ SubSeq(str, Len(str) - 3, Len(str)) = "sr-1"

\* str[:-4]
drop4(str) == SubSeq(str, 1, Len(str) - 4)

\* A faulty variant of dispatch: the key made of the whole signatures.
dispatch_whole(uni_from, uni_to) ==
    [to_sr   |-> FALSE,
     from_sr |-> FALSE,
     key     |-> join("", split(uni_from)) \o "_to_" \o join("", split(uni_to))]

\* Lines 191-201 and the key of lines 205 and 208: whether a solid-angle
\* step is peeled off on either side, and the key looked up in _switch.
dispatch(uni_from, uni_to) ==
    With(split(uni_from), LAMBDA uni_from_ :
    With(split(uni_to), LAMBDA uni_to_ :
    With(only(uni_from_, uni_to_), LAMBDA only_from :
    With(only(uni_to_, uni_from_), LAMBDA only_to :
        [to_sr   |-> ends_sr(only_to),
         from_sr |-> ends_sr(only_from),
         key     |-> (IF ends_sr(only_from) THEN drop4(only_from) ELSE only_from)
                     \o "_to_" \o
                     (IF ends_sr(only_to) THEN drop4(only_to) ELSE only_to)]))))

\* A faulty variant of from_SI: the factor forgotten.
from_SI_unscaled(fac_from, x) == Ok(x)

\* fac_from(args[0]) or fac_from*args[0]
from_SI(fac_from, x) ==
    IF IsNLC(fac_from) THEN apply(fac_from, x, FALSE)
    ELSE IF IsNone(fac_from) THEN Raise("TypeError")
    ELSE Ok(Mul(fac_from.val, x))

\* A faulty variant of to_unit: the converter of the target applied in the
\* forward direction.
to_unit_forward(fac_to, ret_value) ==
    IF ~IsOk(ret_value) THEN ret_value
    ELSE IF IsNLC(fac_to) THEN apply(fac_to, ret_value.val, FALSE)
    ELSE IF IsNone(fac_to) THEN Raise("TypeError")
    ELSE fdiv(ret_value.val, fac_to.val)

\* fac_to(ret_value, inv=True) or ret_value / fac_to
to_unit(fac_to, ret_value) ==
    IF ~IsOk(ret_value) THEN ret_value
    ELSE IF IsNLC(fac_to) THEN apply(fac_to, ret_value.val, TRUE)
    ELSE IF IsNone(fac_to) THEN Raise("TypeError")
    ELSE fdiv(ret_value.val, fac_to.val)

\* A faulty variant of kwargs_to_SI: the values taken as they are given.
kwargs_to_SI_raw(kwargs, order) ==
    With([key \in DOMAIN kwargs |-> breakdown(kwargs[key][2], order)], LAMBDA b :
        IF \E key \in DOMAIN kwargs : ~IsOk(b[key]) THEN Raise("UnknownUnit")
        ELSE Ok([key \in DOMAIN kwargs |-> kwargs[key][1]]))

\* Lines 175-179: every keyword value in SI units.  kwargs maps the keys
\* given to (value, unit) pairs.
kwargs_to_SI(kwargs, order) ==
    With([key \in DOMAIN kwargs |-> breakdown(kwargs[key][2], order)], LAMBDA b :
    With({key \in DOMAIN kwargs : ~IsOk(b[key]) \/ ~IsFloat(b[key].factor)}, LAMBDA bad :
    With(CHOOSE key \in bad : TRUE, LAMBDA first :
        IF bad = {}
        THEN Ok([key \in DOMAIN kwargs |-> Mul(b[key].factor.val, kwargs[key][1])])
        ELSE IF ~IsOk(b[first]) THEN Raise(b[first].kind)
        ELSE Raise("TypeError"))))

\* The steps of one function of _switch after the other.
then_call(arg, fn, kwargs) == IF ~IsOk(arg) THEN arg ELSE call(fn, arg.val, kwargs)

\* A faulty variant of change_base: no change of base at all.
change_base_none(fac_from, uni_from, uni_to, x, kwargs_SI) == from_SI(fac_from, x)

\* Lines 190-208: the branch for different signatures.  _switch['_to_sr-1']
\* is per_sr and _switch['sr-1_to_'] is times_sr; the key is looked up before
\* fac_from is applied.
change_base(fac_from, uni_from, uni_to, x, kwargs_SI) ==
    With(dispatch(uni_from, uni_to), LAMBDA d :
    With(IF d.to_sr THEN per_sr(x, kwargs_SI) ELSE Ok(x), LAMBDA x1 :
    With(IF d.from_sr /\ IsOk(x1) THEN times_sr(x1.val, kwargs_SI) ELSE x1, LAMBDA x2 :
        IF ~IsOk(x2) THEN x2
        ELSE IF d.key \notin DOMAIN _switch THEN Raise("UnsupportedConversion")
        ELSE then_call(from_SI(fac_from, x2.val), _switch[d.key], kwargs_SI))))

\* A local variable that the call has not assigned.
Nil == [kind |-> "none"]

\* A faulty variant of convert_units: 'SI' broken down like any other unit.
convert_units_literal(_from, _to, kwargs, order) ==
    [from |-> breakdown(_from, order), to |-> breakdown(_to, order),
     kwargs_SI |-> kwargs_to_SI(kwargs, order)]

\* Lines 168-179: the local variables fac_from, uni_from (from), fac_to,
\* uni_to (to) and kwargs_SI, each assigned only if the statements before
\* it have raised nothing.
convert_units(_from, _to, kwargs, order) ==
    With(breakdown(_from, order), LAMBDA f :
    With(IF ~IsOk(f) THEN Nil
         ELSE IF _to # "SI" THEN breakdown(_to, order)
         ELSE [kind |-> "ok", factor |-> Float(Int2Num(1)), sig |-> f.sig], LAMBDA t :
        [from |-> f, to |-> t,
         kwargs_SI |-> IF IsOk(f) /\ IsOk(t) THEN kwargs_to_SI(kwargs, order) ELSE Nil]))

\* A faulty variant of convert_value: a failure of the target unit ignored.
convert_value_from_only(l, x) ==
    IF ~IsOk(l.from) THEN Raise(l.from.kind) ELSE from_SI(l.from.factor, x)

\* Lines 181-216, or the exception that lines 168-179 have raised.
convert_value(l, x) ==
    IF ~IsOk(l.from) THEN Raise(l.from.kind)
    ELSE IF ~IsOk(l.to) THEN Raise(l.to.kind)
    ELSE IF ~IsOk(l.kwargs_SI) THEN Raise(l.kwargs_SI.kind)
    ELSE to_unit(l.to.factor,
                 IF l.from.sig = l.to.sig THEN from_SI(l.from.factor, x)
                 ELSE change_base(l.from.factor, l.from.sig, l.to.sig, x, l.kwargs_SI.val))

convert(_from, _to, x, kwargs, order) ==
    convert_value(convert_units(_from, _to, kwargs, order), x)

(***************************************************************************)
(* The calls                                                               *)
(***************************************************************************)

MaxVal == 1

\* The values converted: 0, 2.5, ...
Values == {Q(5 * k, 2, 0) : k \in 0..MaxVal}

\* The unit expressions converted from and to: lengths, a velocity, a
\* frequency, a spatial frequency, flux densities per frequency and per
\* wavelength, a flux, quantities per solid angle, temperatures and a string
\* that is no unit.
Units ==
    { "km", "cm", "km h-1", "m/s", "Ghz", "cy/arcsec",
      "Jy", "erg/s/cm2/A", "erg/s/cm2", "erg/s/cm2/micron/sr",
      "W", "W/sr", "zz9", "K", "F" }

NoContext == [key \in {} |-> <<>>]

\* The keyword arguments given: none, a wavelength, a frequency, an angular
\* size, several of them, and a unit that does not resolve.
Contexts ==
    { NoContext,
      [wave |-> <<Q(2, 1, 0), "cm">>],
      [freq |-> <<Q(3, 1, 0), "Ghz">>],
      [wave |-> <<Q(3, 1, 0), "mm">>, freq |-> <<Q(3, 1, 0), "Ghz">>],
      [diam |-> <<Q(3, 1, 0), "mas">>],
      [wave |-> <<Q(2, 1, 0), "cm">>, diam |-> <<Q(3, 1, 0), "mas">>],
      [freq |-> <<Q(3, 1, 0), "Ghz">>, pix |-> <<Q(3, 1, 0), "mas">>],
      [radius |-> <<Q(1, 1, 0), "as">>, pix |-> <<Q(3, 1, 0), "mas">>],
      [wave |-> <<Q(1, 1, 0), "zz">>] }

\* The unit expressions broken down: those converted, and compounds.
Compounds ==
    Units \cup
    { "min", "erg s-1 cm-2 A-1", "W m-3", "erg s-1 W2 kg2 cm-2",
      "m s m-1", "hz s", "10mW m-2/nm", "N m-1 s2", "Jy hz sr-1", "m zz9",
      "cy as-1 K", "dam2 das-1", "" }

Prefixes == {"n", "mu", "m", "c", "d", "da", "h", "k", "M", "G"}

\* The tokens decomposed: every name of _factors, every prefix before every
\* name, tokens with factors and powers, and tokens that are no unit.
Tokens ==
    DOMAIN _factors \cup {p \o n : p \in Prefixes, n \in DOMAIN _factors} \cup
    { "g2", "hg3", "Mg4", "W3", "s-2", "m-2", "10mW", "2km-3", "zz9", "zz",
      "kzz", "kg", "mk", "5", "12", "SI", "sec" }

\* The strings whose aliases are resolved.
AliasInputs ==
    Compounds \cup
    { "erg/s/cm2/angstrom", "W/m2/Hz", "cycles/arcsec", "micron", "m/10s2",
      "Jy mag", "ABmag", "erg/s/cm2/mag", "m^2", "m**2", "a//b", "m/", "/s",
      "STmag", "vegamag", "STmag mum-1 kK2", "kABmag2 nm-1", "km s-1",
      "10mW m-2 nm-1", "cycle", "microinch", "m/1s", "m/s-2", "H^z", "cyccle" }

\* The module globals that hold the tables, as the module body leaves them
\* (lines 675-785).
Tables ==
    [_factors |-> _factors, _scalings |-> _scalings,
     _aliases |-> _aliases, _switch |-> _switch]

\* Before a call: the tables as constructed, nothing assigned or returned
\* yet, and no other thread.
Start ==
    /\ tables = Tables /\ threads = <<>>
    /\ pc = "call" /\ loc = Nil /\ ret = Nil /\ back = Nil

\* The calls of convert.  None of the units converted has a prefix that
\* depends on the order of the prefix loop.
ConvertCalls ==
    /\ op = "convert"
    /\ scan = TextOrder
    /\ a_from \in Units
    /\ a_to \in Units \cup {"SI"}
    /\ a_x \in Values
    /\ a_ctx \in Contexts

BreakdownCalls ==
    /\ op = "breakdown"
    /\ scan \in ScanOrders
    /\ a_from \in Compounds
    /\ a_to = ""
    /\ a_x = {}
    /\ a_ctx = NoContext

ComponentsCalls ==
    /\ op = "components"
    /\ scan \in ScanOrders
    /\ a_from \in Tokens
    /\ a_to = ""
    /\ a_x = {}
    /\ a_ctx = NoContext

SolveAliasesCalls ==
    /\ op = "solve_aliases"
    /\ scan \in ScanOrders
    /\ a_from \in AliasInputs
    /\ a_to = ""
    /\ a_x = {}
    /\ a_ctx = NoContext

\* convert(a_from, a_to, a_x, **a_ctx)
Convert ==
    /\ pc = "call" /\ op = "convert"
    /\ loc' = convert_units(a_from, a_to, a_ctx, scan)
    /\ ret' = convert_value(loc', a_x)
    /\ pc' = "done"
    /\ UNCHANGED <<tables, threads, scan, op, a_from, a_to, a_x, a_ctx, back>>

\* The way back: convert(a_to, a_from, <the value returned>, **a_ctx)
ConvertBack ==
    /\ pc = "done" /\ op = "convert"
    /\ IsOk(ret) /\ a_to # "SI"
    /\ back' = convert(a_to, a_from, ret.val, a_ctx, scan)
    /\ pc' = "back"
    /\ UNCHANGED <<tables, threads, scan, op, a_from, a_to, a_x, a_ctx, loc, ret>>

\* breakdown(a_from)
Breakdown ==
    /\ pc = "call" /\ op = "breakdown"
    /\ ret' = breakdown(a_from, scan)
    /\ pc' = "done"
    /\ UNCHANGED <<tables, threads, scan, op, a_from, a_to, a_x, a_ctx, loc, back>>

\* breakdown of the same tokens in another order; a_to is the string given.
BreakdownPermuted ==
    /\ pc = "done" /\ op = "breakdown"
    /\ \E perm \in Permutations(DOMAIN split(a_from)) :
          /\ a_to' = join(" ", [i \in DOMAIN split(a_from) |-> split(a_from)[perm[i]]])
          /\ back' = breakdown(a_to', scan)
    /\ pc' = "back"
    /\ UNCHANGED <<tables, threads, scan, op, a_from, a_x, a_ctx, loc, ret>>

\* components(a_from)
Components ==
    /\ pc = "call" /\ op = "components"
    /\ ret' = components(a_from, scan)
    /\ pc' = "done"
    /\ UNCHANGED <<tables, threads, scan, op, a_from, a_to, a_x, a_ctx, loc, back>>

\* solve_aliases(a_from)
SolveAliases ==
    /\ pc = "call" /\ op = "solve_aliases"
    /\ ret' = solve_aliases(a_from)
    /\ pc' = "done"
    /\ UNCHANGED <<tables, threads, scan, op, a_from, a_to, a_x, a_ctx, loc, back>>

\* solve_aliases(<the string returned>)
SolveAliasesAgain ==
    /\ pc = "done" /\ op = "solve_aliases"
    /\ IsOk(ret)
    /\ back' = solve_aliases(ret.val)
    /\ pc' = "back"
    /\ UNCHANGED <<tables, threads, scan, op, a_from, a_to, a_x, a_ctx, loc, ret>>

\* breakdown(a_from) and breakdown(<the string returned>)
BreakdownResolved ==
    /\ pc = "back" /\ op = "solve_aliases"
    /\ loc' = [given |-> breakdown(a_from, scan), resolved |-> breakdown(ret.val, scan)]
    /\ pc' = "broken"
    /\ UNCHANGED <<tables, threads, scan, op, a_from, a_to, a_x, a_ctx, ret, back>>

\* The calls of one function only.
InitConvert == Start /\ ConvertCalls

NextConvert ==
    \/ Convert
    \/ ConvertBack

SpecConvert == InitConvert /\ [][NextConvert]_vars

InitBreakdown == Start /\ BreakdownCalls

NextBreakdown ==
    \/ Breakdown
    \/ BreakdownPermuted

SpecBreakdown == InitBreakdown /\ [][NextBreakdown]_vars

InitComponents == Start /\ ComponentsCalls

NextComponents == Components

SpecComponents == InitComponents /\ [][NextComponents]_vars

\* Conversions between temperature scales, magnitudes and linear units of
\* the same dimensions, with and without prefixes.
NonlinearUnits ==
    { "F", "K", "C", "kF", "kK", "dC", "ABmag", "Jy", "vegamag", "STmag",
      "erg/s/cm2/A" }

NonlinearValues == Values \cup {Q(100, 1, 0)}

NonlinearCalls ==
    /\ op = "convert"
    /\ scan = TextOrder
    /\ a_from \in NonlinearUnits
    /\ a_to \in NonlinearUnits
    /\ a_x \in NonlinearValues
    /\ a_ctx = NoContext

InitNonlinear == Start /\ NonlinearCalls

SpecNonlinear == InitNonlinear /\ [][NextConvert]_vars

\* Conversions between quantities and quantities per solid angle.
SolidAngleUnits ==
    { "W", "W/sr", "Jy", "Jy/sr", "erg/s/cm2/micron", "erg/s/cm2/micron/sr",
      "km", "km/s", "km/s/sr" }

SolidAngleContexts ==
    { NoContext,
      [diam |-> <<Q(3, 1, 0), "mas">>],
      [wave |-> <<Q(2, 1, 0), "cm">>, diam |-> <<Q(3, 1, 0), "mas">>],
      [wave |-> <<Q(2, 1, 0), "cm">>, radius |-> <<Q(1, 1, 0), "as">>],
      [freq |-> <<Q(3, 1, 0), "Ghz">>, pix |-> <<Q(3, 1, 0), "mas">>] }

SolidAngleCalls ==
    /\ op = "convert"
    /\ scan = TextOrder
    /\ a_from \in SolidAngleUnits
    /\ a_to \in SolidAngleUnits
    /\ a_x \in Values
    /\ a_ctx \in SolidAngleContexts

InitSolidAngle == Start /\ SolidAngleCalls

SpecSolidAngle == InitSolidAngle /\ [][NextConvert]_vars

\* The change-of-base functions called directly: a_from is the function,
\* a_x its argument and a_ctx its keyword arguments, all in SI units.
FunctionCalls ==
    /\ op = "function"
    /\ scan = TextOrder
    /\ a_from \in {_switch[key] : key \in DOMAIN _switch}
    /\ a_to = ""
    /\ a_x \in Values
    /\ a_ctx \in { NoContext,
                    [wave |-> Q(2, 1, -2)],
                    [freq |-> Q(3, 1, 9)],
                    [wave |-> Q(2, 1, -2), freq |-> Q(3, 1, 9)],
                    [diam |-> Q(3, 1, -6)],
                    [wave |-> Q(22, 1, -7), pix |-> Q(1, 1, -6)] }

\* a_from(a_x, **a_ctx)
CallFunction ==
    /\ pc = "call" /\ op = "function"
    /\ ret' = call(a_from, a_x, a_ctx)
    /\ pc' = "done"
    /\ UNCHANGED <<tables, threads, scan, op, a_from, a_to, a_x, a_ctx, loc, back>>

\* The function of the opposite direction, called on the value returned
\* with the same keyword arguments; a_to is that function.
CallInverse ==
    /\ pc = "done" /\ op = "function"
    /\ IsOk(ret)
    /\ \E k1 \in DOMAIN _switch, k2 \in DOMAIN _switch :
          /\ _switch[k1] = a_from
          /\ \E i \in 1..Len(k1) :
                /\ StartsAt(k1, i, "_to_")
                /\ k2 = From(k1, i + 4) \o "_to_" \o SubSeq(k1, 1, i - 1)
          /\ a_to' = _switch[k2]
          /\ back' = call(_switch[k2], ret.val, a_ctx)
    /\ pc' = "back"
    /\ UNCHANGED <<tables, threads, scan, op, a_from, a_x, a_ctx, loc, ret>>

\* The same call with the frequency of the wavelength, freq = cc / wave, in
\* the place of the wavelength.
CallWithFreq ==
    /\ pc = "done" /\ op = "function"
    /\ DOMAIN a_ctx = {"wave"}
    /\ loc' = call(a_from, a_x, [freq |-> Div(cc, a_ctx["wave"])])
    /\ pc' = "freq"
    /\ UNCHANGED <<tables, threads, scan, op, a_from, a_to, a_x, a_ctx, ret, back>>

NextFunctions ==
    \/ CallFunction
    \/ CallInverse
    \/ CallWithFreq

InitFunctions == Start /\ FunctionCalls

SpecFunctions == InitFunctions /\ [][NextFunctions]_vars

\* Linear units that a conversion can pass through.
Intermediates == {"Jy", "W/m2/hz", "cm", "g", "K"}

\* Calls of convert that are compared with related calls: a magnitude, a
\* flux density, a length, a mass, a compound and a temperature, converted
\* with and without a change of base.
RelatedCalls ==
    /\ op = "convert"
    /\ scan = TextOrder
    /\ a_from \in {"ABmag", "Jy", "km", "kg", "m kg", "C"}
    /\ a_to \in { "erg/s/cm2/A", "erg/s/cm2/A/sr", "Jy", "km/s", "kg/s", "kg",
                   "K", "cy/arcsec" }
    /\ a_x \in Values
    /\ a_ctx \in { NoContext,
                    [wave |-> <<Q(2, 1, 0), "cm">>],
                    [wave |-> <<Q(3, 1, 0), "mm">>, freq |-> <<Q(3, 1, 0), "Ghz">>],
                    [wave |-> <<Q(2, 1, 0), "cm">>, diam |-> <<Q(3, 1, 0), "mas">>],
                    [wave |-> <<Q(2, 1, 0), "cm">>, diam |-> <<Q(3, 1, 0), "mas">>,
                     radius |-> <<Q(1, 1, 0), "as">>, pix |-> <<Q(2, 1, 0), "mas">>],
                    [freq |-> <<Q(3, 1, 0), "Ghz">>,
                     radius |-> <<Q(1, 1, 0), "as">>, pix |-> <<Q(2, 1, 0), "mas">>],
                    [wave |-> <<Q(2, 1, 0), "cm">>, pix |-> <<Q(1, 1, 0), "zz">>] }

\* The same conversion in two calls, through a linear unit B of the
\* signature of a_from: convert(B, a_to, convert(a_from, B, a_x), **a_ctx)
ConvertVia ==
    /\ pc = "done" /\ op = "convert"
    /\ IsOk(loc.from)
    /\ \E B \in Intermediates \ {a_from} :
          /\ IsOk(breakdown(B, scan))
          /\ breakdown(B, scan).sig = loc.from.sig
          /\ IsFloat(breakdown(B, scan).factor)
          /\ back' = [via |-> B,
                      ret |-> With(convert(a_from, B, a_x, NoContext, scan), LAMBDA first :
                                  IF ~IsOk(first) THEN first
                                  ELSE convert(B, a_to, first.val, a_ctx, scan))]
    /\ pc' = "via"
    /\ UNCHANGED <<tables, threads, scan, op, a_from, a_to, a_x, a_ctx, loc, ret>>

\* The same call with some of the keyword arguments left out.
ConvertWithout ==
    /\ pc = "done" /\ op = "convert"
    /\ \E keys \in SUBSET DOMAIN a_ctx :
          /\ keys # {}
          /\ back' = [dropped |-> keys,
                      ret |-> convert(a_from, a_to, a_x,
                                      [key \in DOMAIN a_ctx \ keys |-> a_ctx[key]], scan)]
    /\ pc' = "without"
    /\ UNCHANGED <<tables, threads, scan, op, a_from, a_to, a_x, a_ctx, loc, ret>>

NextRelated ==
    \/ Convert
    \/ ConvertVia
    \/ ConvertWithout

InitRelated == Start /\ RelatedCalls

SpecRelated == InitRelated /\ [][NextRelated]_vars

InitAliases == Start /\ SolveAliasesCalls

NextAliases ==
    \/ SolveAliases
    \/ SolveAliasesAgain
    \/ BreakdownResolved

SpecAliases == InitAliases /\ [][NextAliases]_vars

(***************************************************************************)
(* Concurrent calls.  Every thread has its own arguments and local         *)
(* variables; the tables are the only state the threads share.             *)
(***************************************************************************)

Threads == {1, 2}

ThreadCall(fn, _from, _to, x, kwargs) ==
    [fn |-> fn, from |-> _from, to |-> _to, x |-> x, ctx |-> kwargs]

\* The calls the threads make: conversions whose contexts have the same and
\* different SI values, a conversion that fails, and calls of breakdown,
\* components and solve_aliases, one of which fails.
ThreadCalls ==
    { ThreadCall("convert", "km", "km/s", Q(5, 2, 0), [wave |-> <<Q(2, 1, 0), "cm">>]),
      ThreadCall("convert", "km", "km/s", Q(5, 2, 0), [wave |-> <<Q(20, 1, 0), "mm">>]),
      ThreadCall("convert", "km", "km/s", Q(5, 2, 0), [wave |-> <<Q(3, 1, 0), "cm">>]),
      ThreadCall("convert", "Jy", "erg/s/cm2/micron/sr", Q(5, 2, 0),
                 [wave |-> <<Q(2, 1, 0), "cm">>, diam |-> <<Q(3, 1, 0), "mas">>]),
      ThreadCall("convert", "Jy", "erg/s/cm2/micron/sr", Q(5, 2, 0),
                 [wave |-> <<Q(20, 1, 0), "mm">>, diam |-> <<Q(3000, 1, 0), "muas">>]),
      ThreadCall("convert", "km", "cy/arcsec", Q(5, 2, 0), [freq |-> <<Q(3, 1, 0), "Ghz">>]),
      ThreadCall("convert", "km", "cy/arcsec", Q(5, 2, 0), [freq |-> <<Q(3000, 1, 0), "Mhz">>]),
      ThreadCall("convert", "zz9", "km", Q(5, 2, 0), NoContext),
      ThreadCall("breakdown", "erg/s/cm2/A", "", {}, NoContext),
      ThreadCall("components", "km", "", {}, NoContext),
      ThreadCall("solve_aliases", "m/", "", {}, NoContext) }

InitConcurrent ==
    /\ tables = Tables
    /\ threads \in [Threads -> {[call |-> c, pc |-> "call", loc |-> Nil, ret |-> Nil] :
                                    c \in ThreadCalls}]
    /\ scan = TextOrder
    /\ op = "threads" /\ a_from = "" /\ a_to = "" /\ a_x = {} /\ a_ctx = NoContext
    /\ pc = "call" /\ loc = Nil /\ ret = Nil /\ back = Nil

\* A faulty variant of tables_after: every resolved name cached in _factors.
tables_after_cached(tbl) ==
    [tbl EXCEPT !._factors = ("km" :> Lin(Q(1, 1, 3), "m")) @@ @]

\* The tables after a statement of convert, breakdown, components or
\* solve_aliases: none of them stores into a table or rebinds its name.
tables_after(tbl) == tbl

\* What a statement that reads the tables computes: v, computed from the
\* tables as constructed, if that is what they hold; after a store into a
\* table the lookups may also fail.
Reads(v) == IF tables = Tables THEN {v} ELSE {v, Raise("KeyError")}

\* Lines 168-179 in thread t.
ThreadUnits(t) ==
    /\ threads[t].pc = "call" /\ threads[t].call.fn = "convert"
    /\ \E l \in Reads(convert_units(threads[t].call.from, threads[t].call.to,
                                     threads[t].call.ctx, scan)) :
          threads' = [threads EXCEPT ![t].loc = l, ![t].pc = "units"]
    /\ tables' = tables_after(tables)
    /\ UNCHANGED <<scan, op, a_from, a_to, a_x, a_ctx, pc, loc, ret, back>>

\* Lines 181-216 in thread t.
ThreadValue(t) ==
    /\ threads[t].pc = "units"
    /\ \E r \in Reads(convert_value(threads[t].loc, threads[t].call.x)) :
          threads' = [threads EXCEPT ![t].ret = r, ![t].pc = "done"]
    /\ tables' = tables_after(tables)
    /\ UNCHANGED <<scan, op, a_from, a_to, a_x, a_ctx, pc, loc, ret, back>>

ThreadBreakdown(t) ==
    /\ threads[t].pc = "call" /\ threads[t].call.fn = "breakdown"
    /\ \E r \in Reads(breakdown(threads[t].call.from, scan)) :
          threads' = [threads EXCEPT ![t].ret = r, ![t].pc = "done"]
    /\ tables' = tables_after(tables)
    /\ UNCHANGED <<scan, op, a_from, a_to, a_x, a_ctx, pc, loc, ret, back>>

ThreadComponents(t) ==
    /\ threads[t].pc = "call" /\ threads[t].call.fn = "components"
    /\ \E r \in Reads(components(threads[t].call.from, scan)) :
          threads' = [threads EXCEPT ![t].ret = r, ![t].pc = "done"]
    /\ tables' = tables_after(tables)
    /\ UNCHANGED <<scan, op, a_from, a_to, a_x, a_ctx, pc, loc, ret, back>>

ThreadSolveAliases(t) ==
    /\ threads[t].pc = "call" /\ threads[t].call.fn = "solve_aliases"
    /\ \E r \in Reads(solve_aliases(threads[t].call.from)) :
          threads' = [threads EXCEPT ![t].ret = r, ![t].pc = "done"]
    /\ tables' = tables_after(tables)
    /\ UNCHANGED <<scan, op, a_from, a_to, a_x, a_ctx, pc, loc, ret, back>>

NextConcurrent ==
    \/ \E t \in DOMAIN threads : ThreadUnits(t)
    \/ \E t \in DOMAIN threads : ThreadValue(t)
    \/ \E t \in DOMAIN threads : ThreadBreakdown(t)
    \/ \E t \in DOMAIN threads : ThreadComponents(t)
    \/ \E t \in DOMAIN threads : ThreadSolveAliases(t)

SpecConcurrent == InitConcurrent /\ [][NextConcurrent]_vars

(***************************************************************************)
(* The calls of convert, breakdown, components and solve_aliases, alone    *)
(* and concurrent                                                          *)
(***************************************************************************)

Init ==
    \/ Start /\ (ConvertCalls \/ BreakdownCalls \/ ComponentsCalls \/ SolveAliasesCalls)
    \/ InitConcurrent

Next ==
    \/ Convert
    \/ ConvertBack
    \/ Breakdown
    \/ BreakdownPermuted
    \/ Components
    \/ SolveAliases
    \/ SolveAliasesAgain
    \/ BreakdownResolved
    \/ \E t \in DOMAIN threads : ThreadUnits(t)
    \/ \E t \in DOMAIN threads : ThreadValue(t)
    \/ \E t \in DOMAIN threads : ThreadBreakdown(t)
    \/ \E t \in DOMAIN threads : ThreadComponents(t)
    \/ \E t \in DOMAIN threads : ThreadSolveAliases(t)

Spec == Init /\ [][Next]_vars

(***************************************************************************)
(* Properties                                                              *)
(***************************************************************************)

\* The SI base symbols.
SIBase == {"m", "kg", "s", "cy", "sr", "K"}

\* The names of the Base Unit Table.
Names == DOMAIN _factors

\* The tokens of a unit expression, its aliases resolved.
TokensOf(unit) == split(solve_aliases(unit).val)

\* The power of the base symbol b in the tokens toks of a base string or of
\* a signature, from position k on.
RECURSIVE PowerIn(_, _, _)
PowerIn(b, toks, k) ==
    IF k > Len(toks) THEN 0
    ELSE (IF parse(toks[k]).basis = b THEN parse(toks[k]).power ELSE 0)
         + PowerIn(b, toks, k + 1)

\* The sum over the tokens t of power(t) * (the power of b in the base
\* string of t), from position k on.
RECURSIVE NetPower(_, _, _, _)
NetPower(b, toks, k, order) ==
    IF k > Len(toks) THEN 0
    ELSE components(toks[k], order).power
            * PowerIn(b, split(components(toks[k], order).basis), 1)
         + NetPower(b, toks, k + 1, order)

\* The product over the tokens t of factor(t) ** power(t), from position k on.
RECURSIVE NetFactor(_, _, _)
NetFactor(toks, k, order) ==
    IF k > Len(toks) THEN Int2Num(1)
    ELSE Mul(PowInt(components(toks[k], order).factor.val,
                    components(toks[k], order).power),
             NetFactor(toks, k + 1, order))

\* A token whose basis is neither a name of the Base Unit Table nor a prefix
\* of the Scaling Table followed by one.
Unresolvable(token) ==
    With(parse(token).basis, LAMBDA basis :
        /\ basis \notin Names
        /\ \A p \in Prefixes :
              StartsAt(basis, 1, p) => From(basis, Len(p) + 1) \notin Names)

AnyUnresolvable(unit) ==
    With(solve_aliases(unit), LAMBDA resolved :
        /\ IsOk(resolved)
        /\ \E token \in Range(split(resolved.val)) : Unresolvable(token))

\* The context keys a change-of-base function accepts.
Accepts(fn) ==
    CASE fn \in {"distance2velocity", "velocity2distance"} -> {"wave"}
      [] fn \in {"fnu2flambda", "flambda2fnu", "fnu2nufnu", "nufnu2fnu",
                 "distance2spatialfreq", "spatialfreq2distance"} -> {"wave", "freq"}
      [] fn \in {"per_sr", "times_sr"} -> {"diam", "radius", "pix"}
      [] OTHER -> {}

\* convert has returned or raised, and both unit expressions were resolved.
Converted == op = "convert" /\ pc # "call" /\ IsOk(loc.from) /\ IsOk(loc.to)

\* ... and they have different signatures.
Differ == Converted /\ loc.from.sig # loc.to.sig

\* A solid-angle step is peeled off and no size is given.
PeeledWithoutSize ==
    /\ dispatch(loc.from.sig, loc.to.sig).to_sr \/ dispatch(loc.from.sig, loc.to.sig).from_sr
    /\ DOMAIN a_ctx \cap Accepts("per_sr") = {}

\* C1: whenever convert(A, B, x, **ctx) succeeds for linear units A and B,
\* convert(B, A, convert(A, B, x, **ctx), **ctx) returns x.
C1_RoundTrip ==
    (op = "convert" /\ pc = "back"
        /\ IsFloat(loc.from.factor) /\ IsFloat(loc.to.factor))
    => back = Ok(a_x)

\* C2: for linear unit expressions with equal signatures, convert returns
\* x * factor(A) / factor(B), the factors being those of breakdown, whatever
\* context is given or not given.
C2_SameSignature ==
    (Converted /\ a_to # "SI" /\ IsOk(loc.kwargs_SI)
        /\ IsFloat(loc.from.factor) /\ IsFloat(loc.to.factor)
        /\ loc.from.sig = loc.to.sig)
    => ret = fdiv(Mul(a_x, loc.from.factor.val), loc.to.factor.val)

C2_Witness ==
    /\ op = "convert" /\ pc = "done"
    /\ a_from = "km" /\ a_to = "cm" /\ a_x = Q(25, 1, -1) /\ a_ctx = NoContext
    /\ ret = Ok(Q(25, 1, 4))

\* C3: breakdown of a linear expression returns the factor that is the
\* product over the tokens of factor(t) ** power(t), and a signature of SI
\* base symbols in which the power of each symbol b is the sum over the
\* tokens of power(t) * (the power of b in the base string of t); factor,
\* base string and power of a token are those components gives.
C3_Breakdown ==
    (op = "breakdown" /\ pc # "call" /\ IsOk(ret) /\ IsFloat(ret.factor))
    => /\ ret.factor.val = NetFactor(TokensOf(a_from), 1, scan)
       /\ \A b \in SIBase :
             PowerIn(b, split(ret.sig), 1) = NetPower(b, TokensOf(a_from), 1, scan)
       /\ \A k \in DOMAIN split(ret.sig) : parse(split(ret.sig)[k]).basis \in SIBase

C3_Witness ==
    /\ op = "breakdown" /\ pc = "done"
    /\ a_from = "erg s-1 cm-2 A-1"
    /\ ret = [kind |-> "ok", factor |-> Float(Q(1, 1, 7)), sig |-> "kg1 m-1 s-3"]

C5_UnknownUnit ==
    /\ (op = "components" /\ pc # "call" /\ Unresolvable(a_from))
       => ret = Raise("UnknownUnit")
    /\ (op = "breakdown" /\ pc # "call" /\ AnyUnresolvable(a_from))
       => ret = Raise("UnknownUnit")
    /\ (op = "convert" /\ pc # "call"
           /\ (AnyUnresolvable(a_from) \/ (a_to # "SI" /\ AnyUnresolvable(a_to))))
       => ret = Raise("UnknownUnit")

C5_Witness ==
    /\ op = "convert" /\ pc = "done"
    /\ a_from = "km" /\ a_to = "zz9"
    /\ IsOk(loc.from) /\ ret = Raise("UnknownUnit")

\* C6: a conversion between different signatures raises MissingContext when
\* a solid-angle step is peeled off and none of diam, radius and pix is
\* given, and when none of the keys that the function selected in the
\* dispatch table accepts is given.
C6_MissingContext ==
    (Differ /\ IsOk(loc.kwargs_SI))
    => /\ PeeledWithoutSize => ret = Raise("MissingContext")
       /\ (/\ dispatch(loc.from.sig, loc.to.sig).key \in DOMAIN _switch
           /\ Accepts(_switch[dispatch(loc.from.sig, loc.to.sig).key]) # {}
           /\ DOMAIN a_ctx \cap Accepts(_switch[dispatch(loc.from.sig, loc.to.sig).key]) = {})
          => ret = Raise("MissingContext")

C6_Witness ==
    /\ op = "convert" /\ pc = "done"
    /\ a_from = "km" /\ a_to = "km h-1" /\ DOMAIN a_ctx = {"freq"}
    /\ ret = Raise("MissingContext")

\* C7, as stated: when the signatures differ and the key is no key of the
\* dispatch table, convert raises UnsupportedConversion.
C7_Unsupported ==
    (Differ /\ IsOk(loc.kwargs_SI)
        /\ dispatch(loc.from.sig, loc.to.sig).key \notin DOMAIN _switch)
    => ret = Raise("UnsupportedConversion")

\* C7, amended: when the signatures differ and the key is no key of the
\* dispatch table, convert returns no value; it raises UnsupportedConversion
\* unless a statement before the lookup has raised: UnknownUnit for a
\* context unit that does not resolve, MissingContext for a solid-angle step
\* peeled off without diam, radius and pix.
C7_NoValue ==
    (Differ /\ dispatch(loc.from.sig, loc.to.sig).key \notin DOMAIN _switch)
    => ret = IF ~IsOk(loc.kwargs_SI) THEN Raise("UnknownUnit")
             ELSE IF PeeledWithoutSize THEN Raise("MissingContext")
             ELSE Raise("UnsupportedConversion")

C7_Witness ==
    /\ op = "convert" /\ pc = "done"
    /\ a_from = "km" /\ a_to = "W/sr" /\ a_ctx = NoContext
    /\ dispatch(loc.from.sig, loc.to.sig).key \notin DOMAIN _switch
    /\ ret = Raise("MissingContext")

\* C8: convert(from_unit, 'SI', x) of a unit that resolves returns
\* x * factor(from_unit), or the nonlinear converter of the unit applied to
\* x, and raises neither UnsupportedConversion nor MissingContext.
C8_ToSI ==
    (op = "convert" /\ pc # "call" /\ a_to = "SI" /\ IsOk(loc.from))
    => /\ ret.kind \notin {"UnsupportedConversion", "MissingContext"}
       /\ (IsOk(kwargs_to_SI(a_ctx, scan)) /\ IsFloat(loc.from.factor))
          => ret = Ok(Mul(a_x, loc.from.factor.val))
       /\ (IsOk(kwargs_to_SI(a_ctx, scan)) /\ IsNLC(loc.from.factor))
          => ret = apply(loc.from.factor, a_x, FALSE)

C8_Witness ==
    /\ op = "convert" /\ pc = "done"
    /\ a_from = "erg/s/cm2/A" /\ a_to = "SI" /\ a_x = Q(25, 1, -1)
    /\ a_ctx = NoContext
    /\ ret = Ok(Q(25, 1, 6))

\* C9, as stated: the basis components returns is one of the SI base
\* symbols.
C9_SingleSymbol ==
    (op = "components" /\ pc # "call" /\ IsOk(ret)) => ret.basis \in SIBase

\* C9, amended: the basis components returns is the SI base string
\* registered for the name the token resolves to, with or without a prefix:
\* one or more SI base symbols, each with its power, none of them a prefixed
\* name.
C9_BaseString ==
    (op = "components" /\ pc # "call" /\ IsOk(ret))
    => /\ \E n \in Names :
             /\ ret.basis = _factors[n].base
             /\ \/ parse(a_from).basis = n
                \/ \E p \in Prefixes : parse(a_from).basis = p \o n
       /\ Len(split(ret.basis)) >= 1
       /\ \A k \in DOMAIN split(ret.basis) :
             /\ parse(split(ret.basis)[k]).basis \in SIBase
             /\ parse(split(ret.basis)[k]).factor = Int2Num(1)

C9_Witness ==
    /\ op = "components" /\ pc = "done"
    /\ a_from = "W3"
    /\ IsOk(ret) /\ ret.basis = "kg m2 s-3" /\ ret.power = 3

\* C10: for a name of the Base Unit Table, components returns the factor and
\* the SI base string registered for that name, no prefix applied.
C10_DirectEntry ==
    (op = "components" /\ pc # "call" /\ a_from \in Names)
    => /\ IsOk(ret)
       /\ ret.basis = _factors[a_from].base
       /\ ret.power = 1
       /\ ret.factor = IF _factors[a_from].cls = "" THEN Float(_factors[a_from].fac)
                       ELSE NLC(_factors[a_from].cls, Int2Num(1), 1)

\* The result of a call that runs alone.
Alone(c) ==
    CASE c.fn = "convert" -> convert(c.from, c.to, c.x, c.ctx, TextOrder)
      [] c.fn = "breakdown" -> breakdown(c.from, TextOrder)
      [] c.fn = "components" -> components(c.from, TextOrder)
      [] c.fn = "solve_aliases" -> solve_aliases(c.from)

\* C11: no step of a call of convert, breakdown, components or
\* solve_aliases, returning or failing, changes one of the four tables, and
\* under every interleaving of the steps of two threads each call ends with
\* the result it has when it runs alone.
C11_TablesReadOnly ==
    /\ tables = Tables
    /\ \A t \in DOMAIN threads :
          threads[t].pc = "done" => threads[t].ret = Alone(threads[t].call)

\* The second thread has run a conversion to its end while the first is
\* between the two steps of its own.
C11_Witness ==
    /\ op = "threads"
    /\ threads[1].pc = "units" /\ threads[1].call.fn = "convert"
    /\ threads[2].pc = "done" /\ threads[2].call.fn = "convert"
    /\ threads[2].call # threads[1].call
    /\ IsOk(threads[2].ret)

\* The SI value of a (value, unit) pair of a linear unit.
SIValue(pair) == Mul(pair[1], breakdown(pair[2], TextOrder).factor.val)

LinearPair(pair) ==
    /\ IsOk(breakdown(pair[2], TextOrder))
    /\ IsFloat(breakdown(pair[2], TextOrder).factor)

\* Two contexts with the same keys, linear units and equal SI values.
SameSI(kwargs1, kwargs2) ==
    /\ DOMAIN kwargs1 = DOMAIN kwargs2
    /\ \A key \in DOMAIN kwargs1 :
          /\ LinearPair(kwargs1[key]) /\ LinearPair(kwargs2[key])
          /\ SIValue(kwargs1[key]) = SIValue(kwargs2[key])

\* C12: two calls of convert with the same units and value, and contexts
\* whose pairs are of linear units and have the same SI values key by key,
\* return the same result.
C12_ContextInSI ==
    \A t1 \in DOMAIN threads, t2 \in DOMAIN threads :
        ( /\ threads[t1].pc = "done" /\ threads[t2].pc = "done"
          /\ threads[t1].call.fn = "convert" /\ threads[t2].call.fn = "convert"
          /\ threads[t1].call.from = threads[t2].call.from
          /\ threads[t1].call.to = threads[t2].call.to
          /\ threads[t1].call.x = threads[t2].call.x
          /\ SameSI(threads[t1].call.ctx, threads[t2].call.ctx) )
        => threads[t1].ret = threads[t2].ret

\* A wavelength of 2 cm and one of 20 mm: the same velocity.
C12_Witness ==
    /\ op = "threads"
    /\ threads[1].pc = "done" /\ threads[2].pc = "done"
    /\ threads[1].call = ThreadCall("convert", "km", "km/s", Q(5, 2, 0),
                                    [wave |-> <<Q(2, 1, 0), "cm">>])
    /\ threads[2].call = ThreadCall("convert", "km", "km/s", Q(5, 2, 0),
                                    [wave |-> <<Q(20, 1, 0), "mm">>])
    /\ IsOk(threads[1].ret)
    /\ threads[2].ret = threads[1].ret
    /\ threads[1].ret # convert("km", "km/s", Q(5, 2, 0), [wave |-> <<Q(3, 1, 0), "cm">>], TextOrder)

\* A token of the form <optional prefix><name of _factors><optional signed
\* power>.
CanonicalToken(token, order) ==
    With(parse(token), LAMBDA p :
        /\ ~isdigit(Ch(token, 1))
        /\ resolve(p.basis, order, 1).found
        /\ token \in {p.basis, p.basis \o StrOfInt(p.power)})

\* A string of such tokens, separated by blanks, without a division sign.
Canonical(unit, order) ==
    /\ find(unit, "/", 1) = 0
    /\ \A i \in DOMAIN split(unit) : CanonicalToken(split(unit)[i], order)

\* Whether a pattern of _aliases occurs in the string.
HasPattern(unit) == \E i \in DOMAIN _aliases : find(unit, _aliases[i][1], 1) > 0

Resolved == op = "solve_aliases" /\ pc # "call" /\ IsOk(ret)

ResolvedTwice == op = "solve_aliases" /\ pc \in {"back", "broken"}

\* C13, as stated: canonical input is returned unchanged, and for every
\* input a second resolution returns what the first has returned.
C13_Idempotent ==
    /\ (Resolved /\ Canonical(a_from, scan)) => ret.val = a_from
    /\ ResolvedTwice => back = ret

\* C13, amended: canonical input is returned unchanged; no returned string
\* has a division sign; and a second resolution returns what the first has
\* returned unless the first result contains a pattern of _aliases.
C13_CanonicalUnchanged ==
    /\ (Resolved /\ Canonical(a_from, scan)) => ret.val = a_from
    /\ Resolved => find(ret.val, "/", 1) = 0
    /\ (ResolvedTwice /\ ~HasPattern(ret.val)) => back = ret

\* Canonical input with prefixes, powers and a magnitude, resolved twice.
C13_Witness ==
    /\ ResolvedTwice
    /\ a_from = "STmag mum-1 kK2"
    /\ Canonical(a_from, scan)
    /\ ret = Ok(a_from) /\ back = ret

\* Whether `out` is the segment `seg` with its power negated: the same
\* leading factor and basis, the opposite power.
Negated(seg, out) ==
    With(parse(seg), LAMBDA p :
    With(parse(out), LAMBDA q :
        q.basis = p.basis /\ q.factor = p.factor /\ q.power = 0 - p.power))

\* The strings between the blanks of a returned string line up with the
\* segments of the fields of the string given: the first segment of a field
\* as it is, the segments after a division sign negated.
DivisionsNegated(given, returned) ==
    LET fields == split(given)
        segs   == [i \in DOMAIN fields |-> SplitOn(fields[i], "/", "")]
        flat   == ravel(segs)
        first  == ravel([i \in DOMAIN fields |-> [j \in DOMAIN segs[i] |-> j = 1]])
        out    == SplitOn(returned, " ", "")
    IN  /\ Len(out) = Len(flat)
        /\ \A k \in DOMAIN flat :
              IF first[k] THEN out[k] = flat[k] ELSE Negated(flat[k], out[k])

\* C14: in what solve_aliases returns for a string with a division sign,
\* every segment after a division sign has its power negated (1 if absent)
\* and keeps its leading factor, and everything else is as given; the
\* string given and the string returned break down to the same factor and
\* signature.
C14_Division ==
    /\ (Resolved /\ find(resolve_aliases(a_from, 1), "/", 1) > 0)
       => DivisionsNegated(resolve_aliases(a_from, 1), ret.val)
    /\ (Resolved /\ a_from = "erg/s/cm2/A") => ret.val = "erg s-1 cm-2 A-1"
    /\ (Resolved /\ a_from = "10mW m-2/nm") => ret.val = "10mW m-2 nm-1"
    /\ (Resolved /\ a_from = "m/s-2") => ret.val = "m s2"
    /\ (op = "solve_aliases" /\ pc = "broken" /\ resolve_aliases(a_from, 1) = a_from)
       => loc.given = loc.resolved

C14_Witness ==
    /\ op = "solve_aliases" /\ pc = "broken"
    /\ a_from = "10mW m-2/nm"
    /\ ret = Ok("10mW m-2 nm-1")
    /\ IsOk(loc.given) /\ loc.given = loc.resolved
    /\ loc.given.sig = "kg1 m-1 s-3"

\* C19: solve_aliases returns a string for every input and raises nothing.
C19_NoError == (op = "solve_aliases" /\ pc # "call") => IsOk(ret)

\* The pairs of _aliases applied one after the other, each to the output
\* of the one before.
RECURSIVE FoldTo(_, _)
FoldTo(unit, i) ==
    IF i = 0 THEN unit
    ELSE With(FoldTo(unit, i - 1), LAMBDA previous :
             IF Len(previous) = 0 THEN previous
             ELSE replace(previous, _aliases[i][1], _aliases[i][2]))

Fold(unit) == FoldTo(unit, Len(_aliases))

\* C20: the alias phase is one left-to-right fold of replace-all over the
\* pairs of _aliases in table order: a string whose fold has no division
\* sign is returned as its fold, 'micron' becomes 'mum', 'cycles' becomes
\* 'cy', and ' mag' becomes ' vegamag' without touching 'ABmag' or 'STmag'.
C20_AliasFold ==
    /\ (Resolved /\ find(Fold(a_from), "/", 1) = 0) => ret.val = Fold(a_from)
    /\ (Resolved /\ a_from = "micron") => ret.val = "mum"
    /\ (Resolved /\ a_from = "cycles/arcsec") => ret.val = "cy as-1"
    /\ (Resolved /\ a_from = "cycle") => ret.val = "cy"
    /\ (Resolved /\ a_from = "Jy mag") => ret.val = "Jy vegamag"
    /\ (Resolved /\ a_from \in {"ABmag", "STmag", "vegamag"}) => ret.val = a_from

C20_Witness ==
    /\ Resolved
    /\ a_from = "micron"
    /\ ret = Ok("mum")

\* The factor or converter of a unit expression: for a single token what
\* components returns for it, prefix included.
FactorOf(unit, b) ==
    IF find(unit, " ", 1) = 0 /\ find(unit, "/", 1) = 0
    THEN components(unit, TextOrder).factor
    ELSE b.factor

\* C15: for units of the same signature, a converter on the source side is
\* applied to the value given with inverse = false and a converter on the
\* target side is applied last with inverse = true, each with the prefix of
\* its unit; a linear source multiplies by its factor and a linear target
\* divides by its factor.
C15_Direction ==
    (Converted /\ loc.from.sig = loc.to.sig)
    => LET N1 == FactorOf(a_from, loc.from)
           N2 == FactorOf(a_to, loc.to)
           si == IF IsNLC(N1) THEN apply(N1, a_x, FALSE) ELSE Ok(Mul(a_x, N1.val))
       IN  ret = IF ~IsOk(si) THEN si
                 ELSE IF IsNLC(N2) THEN apply(N2, si.val, TRUE)
                 ELSE fdiv(si.val, N2.val)

\* convert('dC', 'kF', 100.) is 0.05, as the doctest shows.
C15_Witness ==
    /\ Converted
    /\ a_from = "dC" /\ a_to = "kF" /\ a_x = Q(100, 1, 0)
    /\ loc.from.factor = NLC("Celcius", Q(1, 1, -1), 1)
    /\ loc.to.factor = NLC("Fahrenheit", Q(1, 1, 3), 1)
    /\ ret = Ok(Q(5, 1, -2))

\* A conversion between a quantity and the same quantity per solid angle,
\* with an angular size given.
PureSolidAngle ==
    /\ Converted /\ IsOk(loc.kwargs_SI)
    /\ IsFloat(loc.from.factor) /\ IsFloat(loc.to.factor)
    /\ loc.from.sig # loc.to.sig
    /\ dispatch(loc.from.sig, loc.to.sig).key = "_to_"
    /\ IsOk(surface(loc.kwargs_SI.val))

\* C16: a conversion to the same quantity per solid angle divides the SI
\* value by the surface, the opposite conversion multiplies by it, and
\* neither raises UnsupportedConversion.
C16_PerSolidAngle ==
    PureSolidAngle
    => LET d    == dispatch(loc.from.sig, loc.to.sig)
           surf == surface(loc.kwargs_SI.val).val
           si   == Mul(a_x, loc.from.factor.val)
       IN  /\ ret.kind # "UnsupportedConversion"
           /\ d.to_sr => ret = fdiv(Div(si, surf), loc.to.factor.val)
           /\ d.from_sr => ret = fdiv(Mul(si, surf), loc.to.factor.val)

\* A conversion with a solid-angle step and another change of base, from a
\* linear unit, with the context both need.
ComposedSolidAngle ==
    /\ Converted /\ IsOk(loc.kwargs_SI)
    /\ IsFloat(loc.from.factor) /\ IsFloat(loc.to.factor)
    /\ loc.from.sig # loc.to.sig
    /\ dispatch(loc.from.sig, loc.to.sig).to_sr # dispatch(loc.from.sig, loc.to.sig).from_sr
    /\ dispatch(loc.from.sig, loc.to.sig).key \in DOMAIN _switch
    /\ IsOk(surface(loc.kwargs_SI.val))

\* The same conversion without the sr-1 token: the other change of base
\* alone, to a unit of the same factor.
WithoutSr ==
    to_unit(loc.to.factor,
            call(_switch[dispatch(loc.from.sig, loc.to.sig).key],
                 Mul(a_x, loc.from.factor.val), loc.kwargs_SI.val))

\* C17: the result of a conversion that composes a solid-angle step with
\* another change of base is the result of the same conversion without the
\* sr-1 token, divided by the surface when sr-1 is on the target side and
\* multiplied by it when it is on the source side.
C17_Composition ==
    (ComposedSolidAngle /\ IsOk(WithoutSr))
    => LET d    == dispatch(loc.from.sig, loc.to.sig)
           surf == surface(loc.kwargs_SI.val).val
       IN  ret = IF d.to_sr THEN fdiv(WithoutSr.val, surf)
                 ELSE Ok(Mul(WithoutSr.val, surf))

\* C18: a nonlinear converter applied forward and then inverse gives the
\* value back, and so does convert from a nonlinear unit to itself.
C18_Invertible ==
    (Converted /\ a_from = a_to /\ IsNLC(loc.from.factor))
    => LET y == apply(loc.from.factor, a_x, FALSE)
       IN  IsOk(y) => /\ apply(loc.from.factor, y.val, TRUE) = Ok(a_x)
                      /\ ret = Ok(a_x)

\* C21: for a basis that is not itself a name of _factors, components takes
\* the first prefix in the order of the table text (n, mu, m, c, d, da, h,
\* k, M, G) whose remainder is a name, whatever the order in which the loop
\* visits the table.
C21_TableOrder ==
    (op = "components" /\ pc # "call" /\ parse(a_from).basis \notin DOMAIN _factors)
    => ret = components(a_from, TextOrder)

Letters == "ABCDEFGHIJKLMNOPQRSTUVWXYZabcdefghijklmnopqrstuvwxyz"

\* The number of digits at the end of a string.
RECURSIVE TrailingDigits(_)
TrailingDigits(str) ==
    IF Len(str) > 0 /\ isdigit(Ch(str, Len(str)))
    THEN 1 + TrailingDigits(SubSeq(str, 1, Len(str) - 1))
    ELSE 0

\* A token read by the grammar <leading factor><basis><signed power>: the
\* digits in front, the digits at the end with the minus sign before them,
\* and what is between.
Grammar(token) ==
    LET lead  == DigitRun(token, 1)
        trail == TrailingDigits(token)
        sign  == IF trail > 0 /\ Ch(token, Len(token) - trail) = "-" THEN 1 ELSE 0
        body  == SubSeq(token, lead + 1, Len(token) - trail - sign)
        digs  == SubSeq(token, Len(token) - trail + 1, Len(token))
    IN  [factor |-> IF lead = 0 THEN 1 ELSE NatOfStr(SubSeq(token, 1, lead), 0),
         basis  |-> body,
         power  |-> IF trail = 0 THEN 1
                    ELSE IF sign = 1 THEN 0 - NatOfStr(digs, 0) ELSE NatOfStr(digs, 0),
         ok     |-> /\ Len(body) > 0
                    /\ \A i \in 1..Len(body) : IndexIn(Ch(body, i), Letters, 1) > 0]

\* Whether a result of components is that of the token g with the prefix p.
SplitGives(g, p, r) ==
    LET name  == From(g.basis, Len(p) + 1)
        scale == Mul(Int2Num(g.factor), IF p = "" THEN Int2Num(1) ELSE _scalings[p])
    IN  /\ StartsAt(g.basis, 1, p)
        /\ name \in DOMAIN _factors
        /\ r.basis = _factors[name].base
        /\ r.factor = IF _factors[name].cls # "" THEN NLC(_factors[name].cls, scale, 1)
                       ELSE Float(Mul(scale, _factors[name].fac))

\* C22: for a token <leading factor><alphabetic basis><signed power> that
\* components accepts, the power returned is the trailing signed integer,
\* or 1 without one, and the factor returned is the leading factor (1
\* without one) times the scale of a prefix times the SI factor of the name
\* that follows the prefix; the doctests of components hold.
C22_TokenGrammar ==
    /\ (op = "components" /\ pc # "call" /\ IsOk(ret) /\ Grammar(a_from).ok)
       => /\ ret.power = Grammar(a_from).power
          /\ \E p \in Prefixes \cup {""} : SplitGives(Grammar(a_from), p, ret)
    /\ (op = "components" /\ pc # "call" /\ a_from = "g2")
       => ret = [kind |-> "ok", factor |-> Float(Q(1, 1, -3)), basis |-> "kg", power |-> 2]
    /\ (op = "components" /\ pc # "call" /\ a_from = "s-2")
       => ret = [kind |-> "ok", factor |-> Float(Q(1, 1, 0)), basis |-> "s", power |-> -2]
    /\ (op = "components" /\ pc # "call" /\ a_from = "mm")
       => ret = [kind |-> "ok", factor |-> Float(Q(1, 1, -3)), basis |-> "m", power |-> 1]

\* components('2km-3') is (2000.0, 'm', -3).
C22_Witness ==
    /\ op = "components" /\ pc = "done"
    /\ a_from = "2km-3"
    /\ Grammar(a_from) = [factor |-> 2, basis |-> "km", power |-> -3, ok |-> TRUE]
    /\ ret = [kind |-> "ok", factor |-> Float(Q(2, 1, 3)), basis |-> "m", power |-> -3]

\* C23: spatialfreq2distance applied to what distance2spatialfreq returns,
\* with the same wavelength or the same frequency, gives the value back.
C23_SpatialInverse ==
    (op = "function" /\ pc = "back" /\ a_from = "distance2spatialfreq")
    => (a_to = "spatialfreq2distance" /\ back = Ok(a_x))

\* The functions that accept a wavelength or a frequency.
WaveOrFreq ==
    { "fnu2flambda", "flambda2fnu", "fnu2nufnu", "nufnu2fnu",
      "distance2spatialfreq", "spatialfreq2distance" }

\* C24: a function that accepts wave or freq returns with freq = cc / wave
\* what it returns with wave.
C24_WaveOrFreq ==
    (op = "function" /\ pc = "freq" /\ a_from \in WaveOrFreq) => loc = ret

\* C25: a conversion made in two calls through a linear unit of the
\* signature of the source returns what the direct conversion returns,
\* whenever both succeed.
C25_Composes ==
    (op = "convert" /\ pc = "via" /\ IsOk(ret) /\ IsOk(back.ret))
    => back.ret = ret

\* The tokens only in the signature of the source and those only in the
\* signature of the target.
OnlyFrom == Range(split(loc.from.sig)) \ Range(split(loc.to.sig))
OnlyTo == Range(split(loc.to.sig)) \ Range(split(loc.from.sig))

\* _switch read as a table from pairs of token sets to functions.
PairTable ==
    { <<{}, {"s-1"}, "distance2velocity">>,
      <<{"s-1"}, {}, "velocity2distance">>,
      <<{"m1"}, {"cy1", "s-1"}, "distance2frequency">>,
      <<{"cy1", "s-1"}, {"m1"}, "distance2frequency">>,
      <<{"m1"}, {}, "distance2spatialfreq">>,
      <<{}, {"m1"}, "spatialfreq2distance">>,
      <<{"cy-1", "s-2"}, {"m-1", "s-3"}, "fnu2flambda">>,
      <<{"m-1", "s-3"}, {"cy-1", "s-2"}, "flambda2fnu">>,
      <<{"cy-1", "s-2"}, {"s-3"}, "fnu2nufnu">>,
      <<{"s-3"}, {"cy-1", "s-2"}, "nufnu2fnu">> }

\* The functions of the table for the pair of the call, the solid angle
\* aside.
Selected ==
    { e[3] : e \in { e \in PairTable : e[1] = OnlyFrom \ {"sr-1"} /\ e[2] = OnlyTo \ {"sr-1"} } }

\* The functions the conversion applies.
Applied ==
    IF loc.from.sig = loc.to.sig THEN {}
    ELSE Selected \cup (IF "sr-1" \in OnlyTo THEN {"per_sr"} ELSE {})
                  \cup (IF "sr-1" \in OnlyFrom THEN {"times_sr"} ELSE {})

\* The keys that are looked for before a key.
Before(key) ==
    CASE key = "freq" -> {"wave"}
      [] key = "radius" -> {"diam"}
      [] key = "pix" -> {"diam", "radius"}
      [] OTHER -> {}

\* No function the conversion applies reads the key: the function does not
\* accept it, or a key that it looks for before is given.
Unused(key) ==
    \A fn \in Applied : key \notin Accepts(fn) \/ Before(key) \cap DOMAIN a_ctx # {}

\* C26: when convert has brought every keyword value to SI units, leaving
\* out keyword arguments that the conversion does not read (a freq next to a
\* wave, a radius next to a diam, a pix next to a diam or a radius, a key no
\* function applied accepts, any key when the signatures are equal) does not
\* change what it returns.
C26_Precedence ==
    (Converted /\ pc = "without" /\ IsOk(loc.kwargs_SI)
        /\ \A key \in back.dropped : Unused(key))
    => back.ret = ret

C26_Witness ==
    /\ Converted /\ pc = "without"
    /\ a_from = "Jy" /\ a_to = "erg/s/cm2/A/sr"
    /\ DOMAIN a_ctx = {"wave", "diam", "radius", "pix"}
    /\ back.dropped = {"radius", "pix"}
    /\ IsOk(ret) /\ back.ret = ret

\* The value the function fn of _switch gives for the call.
Expected(fn) ==
    With(IF "sr-1" \in OnlyTo THEN per_sr(a_x, loc.kwargs_SI.val) ELSE Ok(a_x), LAMBDA x1 :
    With(IF "sr-1" \in OnlyFrom /\ IsOk(x1) THEN times_sr(x1.val, loc.kwargs_SI.val) ELSE x1, LAMBDA x2 :
        IF ~IsOk(x2) THEN x2
        ELSE to_unit(loc.to.factor,
                     then_call(from_SI(loc.from.factor, x2.val), fn, loc.kwargs_SI.val))))

\* C27: the function applied is the one the table gives for the pair of
\* token sets, whatever tokens the two signatures share: distance2velocity
\* when the target has the one extra token s-1 ('kg' -> 'kg/s'),
\* distance2spatialfreq when the source has the one extra token m1.
C27_PairDecides ==
    (Differ /\ pc = "done" /\ IsOk(loc.kwargs_SI))
    => /\ \A fn \in Selected : ret = Expected(fn)
       /\ Selected = {} => ~IsOk(ret)
       /\ (OnlyFrom = {} /\ OnlyTo = {"s-1"}) => Selected = {"distance2velocity"}
       /\ (OnlyFrom = {"m1"} /\ OnlyTo = {}) => Selected = {"distance2spatialfreq"}

C27_Witness ==
    /\ Differ /\ pc = "done"
    /\ a_from = "kg" /\ a_to = "kg/s"
    /\ DOMAIN a_ctx = {"wave"}
    /\ IsOk(ret)
    /\ ret = distance2velocity(a_x, loc.kwargs_SI.val)

====
